---- MODULE Spec2Model ----
\* Model of the resume-optimisation orchestrator (agents/orchestrator.py), the
\* in-memory session store (services/firebase_service.py) and the chunk index
\* (services/vector_store.py).
\*
\* Texts are abstracted to a small set of documents with a character count and
\* a word count (tables Chars and Words); a chunk is the pair (document, slice
\* number).  uuid4 identifiers are modelled by fresh values: a session id is
\* the number of the session, a version id is (session key, position).
\* Outcomes of the generative calls and of the embedding search are
\* nondeterministic choices.
EXTENDS Integers, Sequences, FiniteSets, TLC

-----------------------------------------------------------------------------
\* Bounds of the model

MaxSessions == 2
MaxQueries == 1
MaxReverts == 1
MaxPart == 2   \* length of a text between sentinels, and of an agent output
MaxText == 4   \* length of an arbitrary response of the extraction call
MaxAnalysis == 5   \* length of an analysis text given to the score extraction
MaxStored == 2     \* messages and versions per session when the stores are called directly
MaxName == 3       \* length of a requested section name
MaxLines == 2      \* lines of the content of a section
MaxTasks == 2      \* tasks in the list the decomposition's model answers
MaxKeys == 2       \* number of sections of the text a section request is resolved against

-----------------------------------------------------------------------------
\* Values

\* self.current_session = None
NoSession == 0
SessionIds == 1..MaxSessions
SessionKeys == {NoSession} \cup SessionIds

NoDoc == "None"
Docs == {"empty", "mid", "cv2"}

\* a text whose only section is HEADER: what format_resume_sections makes of
\* the sections of retrieved chunks
HeaderOnly == "hdr"

\* len(text) of a document
Chars(d) ==
  CASE d = "empty" -> 0
    [] d = "mid" -> 120
    [] d = HeaderOnly -> 120
    [] OTHER -> 3600

\* len(text.split()) of a document
Words(d) ==
  CASE d = "empty" -> 0
    [] d = "mid" -> 20
    [] d = HeaderOnly -> 20
    [] OTHER -> 600

\* keys of ResumeParser.extract_sections(text) for a whole document
DocSections(d) ==
  CASE d = "empty" -> {}
    [] d = "mid" -> {"HEADER", "SKILLS"}
    [] d = HeaderOnly -> {"HEADER"}
    [] OTHER -> {"HEADER", "EXPERIENCE", "SKILLS"}

\* a query of exactly 300 characters that holds a greeting keyword, and a job
\* description of 301 characters that holds none
Queries == {"q300", "jd301"}

\* len(query)
QLen(q) == IF q = "q300" THEN 300 ELSE 301

\* any(keyword in query.lower() for keyword in greeting_keywords)
IsGreeting(q) == q = "q300"

AgentTypes == {"company_research", "job_matching", "section_enhancement", "general"}

NoName == "None"

\* distances are scaled by 100: 80 is 0.8 on the [0,2] scale
Distances == {79, 80}
NoDistance == -1

Callers == {"u1", "u2"}
Main == "u1"

-----------------------------------------------------------------------------
VARIABLES
  conversations,        \* FirebaseService.conversations: messages per session
  nSessions,            \* sessions 1..nSessions are keys of conversations
  resume_versions,      \* FirebaseService.resume_versions
  collection,           \* the chroma collection: set of indexed chunks
  current_session,      \* orchestrator.current_session
  current_resume,       \* orchestrator.current_resume (its raw_text)
  conversation_history, \* orchestrator.conversation_history
  frame,                \* per caller: position and locals of the call in progress
  nqueries,             \* per caller: number of its process_query calls admitted so far
  nreverts,             \* number of revert_to_version calls so far
  ret                   \* the call that completed last and its result

vars == <<conversations, nSessions, resume_versions, collection, current_session,
          current_resume, conversation_history, frame, nqueries, nreverts, ret>>

store == <<conversations, nSessions, resume_versions>>
orch == <<current_session, current_resume, conversation_history>>
counters == <<nqueries, nreverts>>

-----------------------------------------------------------------------------
\* Sequences

IsPrefix(s, t) == Len(s) <= Len(t) /\ \A i \in 1..Len(s) : s[i] = t[i]

Last(s) == s[Len(s)]

\* all sequences without repetition of exactly n elements of S
RECURSIVE Arrangements(_, _)
Arrangements(S, n) ==
  IF n = 0 THEN {<<>>}
  ELSE UNION {{<<x>> \o t : t \in Arrangements(S \ {x}, n - 1)} : x \in S}

Min(a, b) == IF a < b THEN a ELSE b

-----------------------------------------------------------------------------
\* services/firebase_service.py

NoMeta == [kind |-> "none", agent |-> "none", used_rag |-> FALSE, used_fallback |-> FALSE]

Message(role, content, metadata) ==
  [role |-> role, content |-> content, metadata |-> metadata]

\* FirebaseService.add_message: appends, or does nothing for an unknown session
add_message(conv, n, session_id, role, content, metadata) ==
  IF session_id \in 1..n
  THEN [conv EXCEPT ![session_id] = Append(@, Message(role, content, metadata))]
  ELSE conv

VersionId(session_id, n) == [s |-> session_id, n |-> n]
UnknownVersionId == VersionId(NoSession, 0)

\* the version id save_resume_version returns (uuid4: fresh)
new_version_id(rv, session_id) == VersionId(session_id, Len(rv[session_id]) + 1)

Version(rv, session_id, resume_content, version_name, agent) ==
  [version_id |-> new_version_id(rv, session_id),
   session_id |-> session_id,
   content |-> resume_content,
   version_name |-> version_name,
   agent |-> agent]

save_resume_version_prepend(rv, session_id, resume_content, version_name, agent) ==
  [rv EXCEPT ![session_id] =
      <<Version(rv, session_id, resume_content, version_name, agent)>> \o @]

\* FirebaseService.save_resume_version (callers always pass a version name)
save_resume_version(rv, session_id, resume_content, version_name, agent) ==
  [rv EXCEPT ![session_id] =
      Append(@, Version(rv, session_id, resume_content, version_name, agent))]

HasVersions(rv, session_id) == Len(rv[session_id]) > 0

\* FirebaseService.get_latest_resume (only used where HasVersions)
get_latest_resume(rv, session_id) == Last(rv[session_id])

VersionsOf(rv) == UNION {{rv[s][i] : i \in 1..Len(rv[s])} : s \in SessionKeys}

VersionIds(rv) == {v.version_id : v \in VersionsOf(rv)}

\* FirebaseService.get_resume_by_version_id, for an id that is found
get_resume_by_version_id(rv, version_id) ==
  CHOOSE v \in VersionsOf(rv) : v.version_id = version_id

-----------------------------------------------------------------------------
\* services/vector_store.py

ChunkSize == 500
DefaultResults == 3
Threshold == 80

split_without_fallback(d) == 0..((Words(d) - 1) \div ChunkSize)

\* VectorStoreService._split_into_chunks: the slice numbers of the chunks;
\* a text without words is kept as one chunk holding the whole text
split_into_chunks(d) ==
  IF Words(d) = 0 THEN {0} ELSE 0..((Words(d) - 1) \div ChunkSize)

Chunk(session_id, version_id, d, i) ==
  [session_id |-> session_id, version_id |-> version_id, d |-> d, chunk_index |-> i]

\* the chunks of document d as add_resume_to_index stores them
ChunksOf(session_id, version_id, d) ==
  {Chunk(session_id, version_id, d, i) : i \in split_into_chunks(d)}

\* VectorStoreService.add_resume_to_index, when collection.add succeeds
add_resume_to_index(coll, session_id, d, version_id) ==
  coll \cup ChunksOf(session_id, version_id, d)

SessionChunks(coll, session_id) == {e \in coll : e.session_id = session_id}

\* VectorStoreService.delete_session_data, when the deletion succeeds
delete_every_session(coll, session_id) == {}

delete_session_data(coll, session_id) == coll \ SessionChunks(coll, session_id)

\* VectorStoreService.search_similar_content: the possible rankings of the
\* n_results nearest chunks under the session filter
search_similar_content(coll, session_id, n_results) ==
  LET pool == IF session_id # NoSession THEN SessionChunks(coll, session_id) ELSE coll
  IN Arrangements(pool, Min(n_results, Cardinality(pool)))

\* the text of a chunk is empty only for the single chunk of an empty text
ChunkIsEmpty(e) == Chars(e.d) = 0

\* "\n\n".join(context_pieces) == "": one piece, and that piece empty
JoinIsEmpty(pieces) == Len(pieces) = 0 \/ (Len(pieces) = 1 /\ ChunkIsEmpty(pieces[1]))

-----------------------------------------------------------------------------
\* agents/orchestrator.py: results of the handlers

Result(status, response, updated_resume, version_name) ==
  [status |-> status, response |-> response, updated_resume |-> updated_resume,
   version_name |-> version_name, used_fallback |-> FALSE,
   agent_called |-> FALSE,  \* whether the agent and the output cleaner were called
   listed |-> {},           \* the section names the response text lists
   fragment |-> NoDoc]      \* the text the output cleaner made of the agent's output

NoResult == Result("none", "none", NoDoc, <<>>)

\* a result built after the call of the agent
AfterAgent(r) == [r EXCEPT !.agent_called = TRUE]

\* {"needs_full_context": True}: a result without status and response
NeedsFullContext == AfterAgent(Result("needs_full_context", "none", NoDoc, <<>>))

\* the handler raised instead of returning
Raised == AfterAgent(Result("raise", "none", NoDoc, <<>>))

\* the result built from the cleaned text d
Cleaned(r, d) == [AfterAgent(r) EXCEPT !.fragment = d]

\* the text a handler works on: the joined chunks or a whole document
RagText(pieces) == [rag |-> TRUE, d |-> NoDoc, pieces |-> pieces]
FullText(d) == [rag |-> FALSE, d |-> d, pieces |-> <<>>]

\* keys of ResumeParser.extract_sections(resume_text).  A chunk is one line of
\* space-joined words, so joined chunks hold no header line of their own.
TextSections(text) ==
  IF text.rag
  THEN IF \A i \in 1..Len(text.pieces) : ChunkIsEmpty(text.pieces[i]) THEN {} ELSE {"HEADER"}
  ELSE DocSections(text.d)

\* result.get("updated_resume") is truthy
Truthy(d) == d # NoDoc /\ Chars(d) > 0

FullLengthFloor == 200
SectionLengthFloor == 50

company_research_any_context(query, resume_text, company, using_rag) ==
  IF ~company
  THEN {Result("needs_info", "ask_company", NoDoc, <<>>)}
  ELSE {NeedsFullContext}
       \cup {IF Chars(d) < FullLengthFloor
             THEN NeedsFullContext
             ELSE AfterAgent(Result("success", "optimized", d,
                                    <<"Optimized for", "company">>)) : d \in Docs}

\* _handle_company_research: every result the handler can produce, over the
\* outcomes of the agent and of the output cleaner
handle_company_research(query, resume_text, company, using_rag) ==
  IF ~company
  THEN {Result("needs_info", "ask_company", NoDoc, <<>>)}
  ELSE {IF using_rag THEN NeedsFullContext ELSE Raised}
       \cup {IF using_rag /\ Chars(d) < FullLengthFloor
             THEN Cleaned(NeedsFullContext, d)
             ELSE Cleaned(Result("success", "optimized", d,
                                 <<"Optimized for", "company">>), d) : d \in Docs}

JobDescriptionFloor == 300

job_matching_from_floor(query, resume_text, using_rag) ==
  IF ~(QLen(query) >= JobDescriptionFloor)
  THEN {Result("needs_info", "ask_job_description", NoDoc, <<>>)}
  ELSE {IF using_rag THEN NeedsFullContext ELSE Raised}
       \cup {IF using_rag /\ Chars(d) < FullLengthFloor
             THEN NeedsFullContext
             ELSE AfterAgent(Result("success", "matched", d,
                                    <<"Job Description Match">>)) : d \in Docs}

\* _handle_job_matching
handle_job_matching(query, resume_text, using_rag) ==
  IF ~(QLen(query) > JobDescriptionFloor)
  THEN {Result("needs_info", "ask_job_description", NoDoc, <<>>)}
  ELSE {IF using_rag THEN NeedsFullContext ELSE Raised}
       \cup {IF using_rag /\ Chars(d) < FullLengthFloor
             THEN Cleaned(NeedsFullContext, d)
             ELSE Cleaned(Result("success", "matched", d,
                                 <<"Job Description Match">>), d) : d \in Docs}

\* the section the request resolves to: an exact key, else whatever key the
\* generative matcher names, else none (neither "skills" nor "xyz123" is a
\* substring or a word of a different key)
resolve_section(section_name, sections) ==
  IF section_name \in sections THEN {section_name} ELSE sections \cup {NoName}

\* DocumentGenerator.format_resume_sections(sections): the text that holds
\* exactly the given sections, each under its name
format_resume_sections(names) ==
  CHOOSE x \in Docs \cup {HeaderOnly} : DocSections(x) = names

section_enhancement_full_floor(query, resume_text, section_name, using_rag) ==
  IF section_name = NoName
  THEN {Result("needs_info", "ask_section", NoDoc, <<>>)}
  ELSE UNION {
         IF m = NoName
         THEN {[Result("error", "no_section", NoDoc, <<>>)
                  EXCEPT !.listed = TextSections(resume_text)]}
         ELSE {IF using_rag THEN NeedsFullContext ELSE Raised}
              \cup UNION {
                    IF using_rag /\ Chars(d) < FullLengthFloor
                    THEN {Cleaned(NeedsFullContext, d)}
                    ELSE {Cleaned(Result("success", "enhanced",
                                 format_resume_sections(TextSections(resume_text)),
                                 <<"Enhanced", m>>), d)} : d \in Docs}
         : m \in resolve_section(section_name, TextSections(resume_text))}

\* _handle_section_enhancement: the sections are those of the text the handler
\* was given, the resolved one is replaced by the enhanced text (of the length
\* of any d) and the sections are formatted into the updated resume
handle_section_enhancement(query, resume_text, section_name, using_rag) ==
  IF section_name = NoName
  THEN {Result("needs_info", "ask_section", NoDoc, <<>>)}
  ELSE UNION {
         IF m = NoName
         THEN {[Result("error", "no_section", NoDoc, <<>>)
                  EXCEPT !.listed = TextSections(resume_text)]}
         ELSE {IF using_rag THEN NeedsFullContext ELSE Raised}
              \cup UNION {
                    IF using_rag /\ Chars(d) < SectionLengthFloor
                    THEN {Cleaned(NeedsFullContext, d)}
                    ELSE {Cleaned(Result("success", "enhanced",
                                 format_resume_sections(TextSections(resume_text)),
                                 <<"Enhanced", m>>), d)} : d \in Docs}
         : m \in resolve_section(section_name, TextSections(resume_text))}

\* _handle_general_query: the agent's own failure yields the canned menu
general_query_raises(query, resume_text) ==
  IF IsGreeting(query)
  THEN {AfterAgent(Result("success", "greeting", NoDoc, <<>>))}
  ELSE {AfterAgent(Result("success", "answer", NoDoc, <<>>)), Raised}

handle_general_query(query, resume_text) ==
  IF IsGreeting(query)
  THEN {AfterAgent(Result("success", "greeting", NoDoc, <<>>))}
  ELSE {AfterAgent(Result("success", "answer", NoDoc, <<>>)),
        AfterAgent(Result("success", "menu", NoDoc, <<>>))}

\* the dispatch on agent_type in process_query
handle(agent, query, resume_text, company, section_name, using_rag) ==
  CASE agent = "company_research" ->
         handle_company_research(query, resume_text, company, using_rag)
    [] agent = "job_matching" ->
         handle_job_matching(query, resume_text, using_rag)
    [] agent = "section_enhancement" ->
         handle_section_enhancement(query, resume_text, section_name, using_rag)
    [] OTHER -> handle_general_query(query, resume_text)

relevant_context_unguarded(results, distance) ==
  IF Len(results) > 0 /\ distance < Threshold
  THEN [found |-> TRUE, pieces |-> results]
  ELSE [found |-> FALSE, pieces |-> <<>>]

relevant_context_strict(results, distance) ==
  IF Len(results) > 0 /\ distance # NoDistance /\ distance < Threshold - 1
  THEN [found |-> TRUE, pieces |-> results]
  ELSE [found |-> FALSE, pieces |-> <<>>]

relevant_context_inclusive(results, distance) ==
  IF Len(results) > 0 /\ distance # NoDistance /\ distance <= Threshold
  THEN [found |-> TRUE, pieces |-> results]
  ELSE [found |-> FALSE, pieces |-> <<>>]

\* _get_relevant_context: results is the ranking the search returned (empty
\* also when the search raised), distance is results[0]["distance"]
\* (NoDistance for None, whose comparison raises and is caught)
get_relevant_context(results, distance) ==
  IF Len(results) > 0 /\ distance # NoDistance /\ distance < Threshold
  THEN [found |-> TRUE, pieces |-> results]
  ELSE [found |-> FALSE, pieces |-> <<>>]

\* bool(relevant_context)
ContextIsTruthy(ctx) == ctx.found /\ ~JoinIsEmpty(ctx.pieces)

-----------------------------------------------------------------------------
\* agents/orchestrator.py: state

\* conversation_history is whatever the caller's context supplied: a list, or
\* a value that is not a list
Buffer(items) == [isList |-> TRUE, items |-> items]
NotAList == [isList |-> FALSE, items |-> <<>>]

\* context: absent, {"conversation_history": []}, {"conversation_history": None}
Contexts == {"none", "list", "bad"}

\* the entities the classifier extracted: company_name and section_name
Entities ==
  {[company |-> FALSE, section |-> NoName], [company |-> TRUE, section |-> NoName],
   [company |-> FALSE, section |-> "SKILLS"], [company |-> FALSE, section |-> "xyz123"]}

NoContext == [found |-> FALSE, pieces |-> <<>>]

\* "entities": {}
NoEntities == [company |-> FALSE, section |-> NoName]

\* confidences are scaled by 100: 50 is 0.5
FallbackConfidence == 50
OverConfidence == 150  \* a confidence the classifier's model gave outside 0..1
Confidences == {FallbackConfidence, 90, OverConfidence}

\* what the classifier call yields: a parsed RoutingDecision, whose agent_type
\* is any string, or a failure (the call or the parser raises)
ClassifierFailed ==
  [agent_type |-> "none", confidence |-> 0, reasoning |-> "raised",
   entities |-> NoEntities, requires_followup |-> FALSE]
RoutingDecisions ==
  [agent_type : AgentTypes \cup {"other"}, confidence : Confidences,
   reasoning : {"llm"}, entities : Entities, requires_followup : BOOLEAN]

route_query_without_followup(decision) ==
  IF decision = ClassifierFailed
  THEN [agent_type |-> "general", confidence |-> FallbackConfidence,
        reasoning |-> "fallback", entities |-> NoEntities, requires_followup |-> FALSE]
  ELSE [decision EXCEPT !.agent_type = IF @ \in AgentTypes THEN @ ELSE "general"]

\* ConversationRouter.route_query: the decision with its agent_type mapped to
\* an AgentType (general for an unknown string), or the fallback
route_query(decision) ==
  IF decision = ClassifierFailed
  THEN [agent_type |-> "general", confidence |-> FallbackConfidence,
        reasoning |-> "fallback", entities |-> NoEntities, requires_followup |-> TRUE]
  ELSE [decision EXCEPT !.agent_type = IF @ \in AgentTypes THEN @ ELSE "general"]

\* the routing dictionary before routing, and once agent_type and entities
\* have been taken from it
NoRouting == [confidence |-> 0, reasoning |-> "none", requires_followup |-> FALSE]

IdleFrame ==
  [pc |-> "idle", query |-> "none", agent |-> "none", routing |-> NoRouting,
   entities |-> [company |-> FALSE, section |-> NoName],
   full_resume_text |-> NoDoc, relevant_context |-> NoContext,
   distance |-> NoDistance,  \* results[0]["distance"] of this call's search
   searched |-> "none",      \* whether that search returned or raised

   use_rag |-> FALSE, result |-> NoResult, invocations |-> 0,
   version_id |-> UnknownVersionId, session0 |-> NoSession,
   versions0 |-> 0,  \* number of versions of session0 when the call began
   messages0 |-> 0,  \* number of its messages, and its chunks, at that time
   chunks0 |-> {}]

\* what a call left behind when it ended: its outcome, the active session
\* before and after it, and the version id it was given (revert_to_version)
Return(op, status, session, before, version_id) ==
  [op |-> op, status |-> status, session |-> session, before |-> before,
   version_id |-> version_id]

AllIdle == \A c \in Callers : frame[c].pc = "idle"

Init ==
  /\ conversations = [s \in SessionIds |-> <<>>]
  /\ nSessions = 0
  /\ resume_versions = [s \in SessionKeys |-> <<>>]
  /\ collection = {}
  /\ current_session = NoSession
  /\ current_resume = NoDoc
  /\ conversation_history = Buffer(<<>>)
  /\ frame = [c \in Callers |-> IdleFrame]
  /\ nqueries = [c \in Callers |-> 0]
  /\ nreverts = 0
  /\ ret = Return("none", "none", NoSession, NoSession, UnknownVersionId)

-----------------------------------------------------------------------------
\* start_session

\* ResumeParser.parse_resume raises: nothing has been done yet
StartParseFails(c) ==
  /\ ret' = Return("start_session", "error", NoSession, current_session, UnknownVersionId)
  /\ UNCHANGED <<store, collection, orch>>

StartActivatesEarly(c, d) ==
  LET session_id == nSessions + 1 IN
  /\ nSessions < MaxSessions
  /\ nSessions' = session_id
  /\ resume_versions' =
       save_resume_version(resume_versions, session_id, d, <<"Original">>, "none")
  /\ current_session' = session_id
  /\ ret' = Return("start_session", "error", session_id, current_session, UnknownVersionId)
  /\ UNCHANGED <<conversations, collection, current_resume, conversation_history>>

\* parse, create_session and save_resume_version succeed, collection.add
\* raises: the session and its version stay in the store
StartIndexFails(c, d) ==
  LET session_id == nSessions + 1 IN
  /\ nSessions < MaxSessions
  /\ nSessions' = session_id
  /\ resume_versions' =
       save_resume_version(resume_versions, session_id, d, <<"Original">>, "none")
  /\ ret' = Return("start_session", "error", session_id, current_session, UnknownVersionId)
  /\ UNCHANGED <<conversations, collection, orch>>

StartSucceeds(c, d) ==
  LET session_id == nSessions + 1
      version_id == new_version_id(resume_versions, session_id) IN
  /\ nSessions < MaxSessions
  /\ nSessions' = session_id
  /\ resume_versions' =
       save_resume_version(resume_versions, session_id, d, <<"Original">>, "none")
  /\ collection' = add_resume_to_index(collection, session_id, d, version_id)
  /\ current_session' = session_id
  /\ current_resume' = d
  /\ conversation_history' = Buffer(<<>>)
  /\ conversations' =
       add_message(conversations, session_id, session_id, "system", "loaded",
                   [NoMeta EXCEPT !.kind = "resume_file"])
  /\ ret' = Return("start_session", "success", session_id, current_session, UnknownVersionId)

start_session(c) ==
  /\ AllIdle
  /\ \/ StartParseFails(c)
     \/ \E d \in Docs : StartIndexFails(c, d)
     \/ \E d \in Docs : StartSucceeds(c, d)
  /\ UNCHANGED <<frame, counters>>

-----------------------------------------------------------------------------
\* revert_to_version

SubSeqTo(s, n) == [i \in 1..n |-> s[i]]

revert_truncates(c, version_id) ==
  /\ AllIdle
  /\ nreverts < MaxReverts
  /\ nreverts' = nreverts + 1
  /\ IF version_id \in VersionIds(resume_versions)
     THEN LET version == get_resume_by_version_id(resume_versions, version_id) IN
          /\ resume_versions' =
               [resume_versions EXCEPT ![version.session_id] = SubSeqTo(@, version.version_id.n)]
          /\ ret' = Return("revert_to_version", "true", current_session, current_session,
                          version_id)
     ELSE /\ ret' = Return("revert_to_version", "false", current_session, current_session,
                          version_id)
          /\ UNCHANGED resume_versions
  /\ UNCHANGED <<conversations, nSessions, collection, orch, frame, nqueries>>

\* a version exists under the id, and it is saved again as the newest version
\* of the active session
revert_to_version(c, version_id) ==
  /\ AllIdle
  /\ nreverts < MaxReverts
  /\ nreverts' = nreverts + 1
  /\ IF version_id \in VersionIds(resume_versions)
     THEN LET version == get_resume_by_version_id(resume_versions, version_id) IN
          /\ resume_versions' =
               save_resume_version(resume_versions, current_session, version.content,
                                   <<"Reverted to">> \o version.version_name, "none")
          /\ ret' = Return("revert_to_version", "true", current_session, current_session,
                          version_id)
     ELSE /\ ret' = Return("revert_to_version", "false", current_session, current_session,
                          version_id)
          /\ UNCHANGED resume_versions
  /\ UNCHANGED <<conversations, nSessions, collection, orch, frame, nqueries>>

-----------------------------------------------------------------------------
\* process_query, one action per step of the pipeline

Goto(c, pc) == frame' = [frame EXCEPT ![c].pc = pc]

QueryWithoutSessionBuffers(c) ==
  /\ current_session = NoSession
  /\ conversation_history' = Buffer(<<"user">>)
  /\ ret' = Return("process_query", "no_session", NoSession, NoSession, UnknownVersionId)
  /\ UNCHANGED <<store, collection, current_session, current_resume, frame, counters>>

\* lines 108-112: no active session
QueryWithoutSession(c) ==
  /\ current_session = NoSession
  /\ ret' = Return("process_query", "no_session", NoSession, NoSession, UnknownVersionId)
  /\ UNCHANGED <<store, collection, orch, frame, counters>>

\* lines 114-125 when conversation_history.append raises: the user message is
\* stored and the exception leaves process_query
QueryRaises(c, query, context) ==
  LET history == CASE context = "list" -> Buffer(<<>>)
                   [] context = "bad" -> NotAList
                   [] OTHER -> conversation_history IN
  /\ current_session # NoSession
  /\ ~history.isList
  /\ nqueries[c] < MaxQueries
  /\ nqueries' = [nqueries EXCEPT ![c] = @ + 1]
  /\ conversation_history' = history
  /\ conversations' =
       add_message(conversations, nSessions, current_session, "user", query, NoMeta)
  /\ ret' = Return("process_query", "raised", current_session, current_session, UnknownVersionId)
  /\ UNCHANGED <<nSessions, resume_versions, collection, current_session,
                 current_resume, frame, nreverts>>

\* lines 114-125: take the caller's history, store the user message, append
\* it to the buffer
QueryAccepted(c, query, context) ==
  LET history == CASE context = "list" -> Buffer(<<>>)
                   [] context = "bad" -> NotAList
                   [] OTHER -> conversation_history IN
  /\ current_session # NoSession
  /\ history.isList
  /\ nqueries[c] < MaxQueries
  /\ nqueries' = [nqueries EXCEPT ![c] = @ + 1]
  /\ conversation_history' = Buffer(Append(history.items, "user"))
  /\ conversations' =
       add_message(conversations, nSessions, current_session, "user", query, NoMeta)
  /\ frame' = [frame EXCEPT ![c] =
                 [IdleFrame EXCEPT !.pc = "route", !.query = query,
                                   !.session0 = current_session,
                                   !.versions0 = Len(resume_versions[current_session]),
                                   !.messages0 = Len(conversations[current_session]),
                                   !.chunks0 = SessionChunks(collection, current_session)]]
  /\ UNCHANGED <<nSessions, resume_versions, collection, current_session,
                 current_resume, ret, nreverts>>

process_query(c) ==
  /\ AllIdle
  /\ \/ QueryWithoutSession(c)
     \/ \E query \in Queries, context \in Contexts : QueryRaises(c, query, context)
     \/ \E query \in Queries, context \in Contexts : QueryAccepted(c, query, context)

\* lines 128-130: route_query returns the classifier's decision, or the
\* fallback when the classifier fails
Route(c) ==
  /\ frame[c].pc = "route"
  /\ \E decision \in RoutingDecisions \cup {ClassifierFailed} :
       LET routing == route_query(decision) IN
       frame' = [frame EXCEPT ![c].pc = "latest",
                              ![c].agent = routing.agent_type,
                              ![c].entities = routing.entities,
                              ![c].routing =
                                 [confidence |-> routing.confidence,
                                  reasoning |-> routing.reasoning,
                                  requires_followup |-> routing.requires_followup]]
  /\ UNCHANGED <<store, collection, orch, counters, ret>>

\* lines 133-134
FetchLatest(c) ==
  /\ frame[c].pc = "latest"
  /\ frame' = [frame EXCEPT ![c].pc = "retrieve",
                 ![c].routing = NoRouting,
                 ![c].full_resume_text =
                    IF HasVersions(resume_versions, current_session)
                    THEN get_latest_resume(resume_versions, current_session).content
                    ELSE current_resume]
  /\ UNCHANGED <<store, collection, orch, counters, ret>>

\* lines 137-141: the search raises (no results), or returns a ranking whose
\* best distance is any distance, or None
Retrieve(c) ==
  /\ frame[c].pc = "retrieve"
  /\ \E results \in search_similar_content(collection, current_session, DefaultResults),
        distance \in Distances \cup {NoDistance},
        searched \in {"returned", "raised"} :
       /\ (Len(results) = 0 \/ searched = "raised") => (distance = NoDistance)
       /\ LET relevant_context ==
                get_relevant_context(IF searched = "raised" THEN <<>> ELSE results, distance)
          IN
          frame' = [frame EXCEPT ![c].pc = "dispatch",
                                 ![c].distance = distance,
                                 ![c].searched = searched,
                                 ![c].relevant_context = relevant_context,
                                 ![c].use_rag = ContextIsTruthy(relevant_context)]
  /\ UNCHANGED <<store, collection, orch, counters, ret>>

\* resume_text = relevant_context if relevant_context else full_resume_text
ResumeText(f) ==
  IF f.use_rag THEN RagText(f.relevant_context.pieces) ELSE FullText(f.full_resume_text)

\* the locals that are still read once the handler has returned for good
AfterHandler(f, r, n) ==
  [IdleFrame EXCEPT !.pc = IF r.status = "raise" THEN "except" ELSE "respond",
                    !.agent = f.agent, !.use_rag = f.use_rag, !.result = r,
                    !.invocations = n, !.session0 = f.session0,
                    !.versions0 = f.versions0, !.messages0 = f.messages0,
                    !.chunks0 = f.chunks0, !.distance = f.distance,
                    !.searched = f.searched]

\* lines 144-152: first invocation of the handler
Dispatch(c) ==
  LET f == frame[c] IN
  /\ f.pc = "dispatch"
  /\ \E r \in handle(f.agent, f.query, ResumeText(f), f.entities.company,
                     f.entities.section, f.use_rag) :
       frame' = [frame EXCEPT ![c] =
                   IF r.status = "needs_full_context"
                   THEN [f EXCEPT !.pc = "retry", !.result = r,
                                  !.invocations = f.invocations + 1,
                                  !.relevant_context = NoContext]
                   ELSE AfterHandler(f, r, f.invocations + 1)]
  /\ UNCHANGED <<store, collection, orch, counters, ret>>

RetryOnContext(c) ==
  LET f == frame[c] IN
  /\ f.pc = "retry"
  /\ \E r \in (IF f.agent = "general"
               THEN {f.result}
               ELSE handle(f.agent, f.query, ResumeText(f),
                           f.entities.company, f.entities.section, f.use_rag)) :
       frame' = [frame EXCEPT ![c] =
                   AfterHandler(f, [r EXCEPT !.used_fallback = TRUE,
                                             !.agent_called = TRUE],
                                IF f.agent = "general" THEN f.invocations
                                ELSE f.invocations + 1)]
  /\ UNCHANGED <<store, collection, orch, counters, ret>>

\* lines 155-162: the handler runs again on the full text; the general
\* handler has no branch here and the result stays as it was
Retry(c) ==
  LET f == frame[c] IN
  /\ f.pc = "retry"
  /\ \E r \in (IF f.agent = "general"
               THEN {f.result}
               ELSE handle(f.agent, f.query, FullText(f.full_resume_text),
                           f.entities.company, f.entities.section, FALSE)) :
       frame' = [frame EXCEPT ![c] =
                   AfterHandler(f, [r EXCEPT !.used_fallback = TRUE,
                                             !.agent_called = TRUE],
                                IF f.agent = "general" THEN f.invocations
                                ELSE f.invocations + 1)]
  /\ UNCHANGED <<store, collection, orch, counters, ret>>

RoutingMeta(f) ==
  [kind |-> "routing", agent |-> f.agent, used_rag |-> f.use_rag,
   used_fallback |-> f.result.used_fallback]

\* lines 165-175: store the assistant message; result["response"] raises
\* KeyError for a result that has no response
Respond(c) ==
  LET f == frame[c] IN
  /\ f.pc = "respond"
  /\ IF f.result.status = "needs_full_context"
     THEN /\ Goto(c, "except")
          /\ UNCHANGED conversations
     ELSE /\ conversations' =
               add_message(conversations, nSessions, current_session, "assistant",
                           f.result.response, RoutingMeta(f))
          /\ Goto(c, IF Truthy(f.result.updated_resume) THEN "save" ELSE "finish")
  /\ UNCHANGED <<nSessions, resume_versions, collection, orch, counters, ret>>

SaveVersionTwice(c) ==
  LET f == frame[c]
      once == save_resume_version(resume_versions, current_session,
                                  f.result.updated_resume, f.result.version_name, f.agent) IN
  /\ f.pc = "save"
  /\ resume_versions' =
       save_resume_version(once, current_session, f.result.updated_resume,
                           f.result.version_name, f.agent)
  /\ frame' = [frame EXCEPT ![c].pc = "delete",
                 ![c].version_id = new_version_id(once, current_session)]
  /\ UNCHANGED <<conversations, nSessions, collection, orch, counters, ret>>

\* lines 178-184
SaveVersion(c) ==
  LET f == frame[c] IN
  /\ f.pc = "save"
  /\ resume_versions' =
       save_resume_version(resume_versions, current_session, f.result.updated_resume,
                           f.result.version_name, f.agent)
  /\ frame' = [frame EXCEPT ![c].pc = "delete",
                 ![c].version_id = new_version_id(resume_versions, current_session)]
  /\ UNCHANGED <<conversations, nSessions, collection, orch, counters, ret>>

ReplaceChunksAtOnce(c) ==
  LET f == frame[c] IN
  /\ f.pc = "delete"
  /\ collection' = add_resume_to_index(delete_session_data(collection, current_session),
                                       current_session, f.result.updated_resume,
                                       f.version_id)
  /\ Goto(c, "add")
  /\ UNCHANGED <<store, orch, counters, ret>>

\* line 187: delete_session_data removes the session's chunks, or catches its
\* own failure and removes nothing
DeleteChunks(c) ==
  /\ frame[c].pc = "delete"
  /\ \/ collection' = delete_session_data(collection, current_session)
     \/ collection' = collection
  /\ Goto(c, "add")
  /\ UNCHANGED <<store, orch, counters, ret>>

\* lines 190-197: add_resume_to_index stores the chunks, or raises
AddChunks(c) ==
  LET f == frame[c] IN
  /\ f.pc = "add"
  /\ \/ /\ collection' = add_resume_to_index(collection, current_session,
                                             f.result.updated_resume, f.version_id)
        /\ Goto(c, "finish")
     \/ /\ UNCHANGED collection
        /\ Goto(c, "except")
  /\ UNCHANGED <<store, orch, counters, ret>>

\* lines 200-222: append the assistant turn to the buffer and return the result
Finish(c) ==
  LET f == frame[c] IN
  /\ f.pc = "finish"
  /\ IF conversation_history.isList
     THEN /\ conversation_history' =
               Buffer(Append(conversation_history.items, "assistant"))
          /\ frame' = [frame EXCEPT ![c] = IdleFrame]
          /\ ret' = Return("process_query", f.result.status, current_session, f.session0,
                          UnknownVersionId)
     ELSE /\ Goto(c, "except")
          /\ UNCHANGED <<conversation_history, ret>>
  /\ UNCHANGED <<store, collection, current_session, current_resume, counters>>

ExceptClearsSession(c) ==
  /\ frame[c].pc = "except"
  /\ conversations' =
       add_message(conversations, nSessions, current_session, "system", "error", NoMeta)
  /\ current_session' = NoSession
  /\ frame' = [frame EXCEPT ![c] = IdleFrame]
  /\ ret' = Return("process_query", "failed", current_session, frame[c].session0,
                  UnknownVersionId)
  /\ UNCHANGED <<nSessions, resume_versions, collection, current_resume,
                 conversation_history, counters>>

\* lines 224-230: the exception is recorded as a system message and the error
\* result {"status": "error", "error": ...} is returned ("failed"; "error" is
\* the result of an unresolved section, which has a response)
Except(c) ==
  /\ frame[c].pc = "except"
  /\ conversations' =
       add_message(conversations, nSessions, current_session, "system", "error", NoMeta)
  /\ frame' = [frame EXCEPT ![c] = IdleFrame]
  /\ ret' = Return("process_query", "failed", current_session, frame[c].session0,
                  UnknownVersionId)
  /\ UNCHANGED <<nSessions, resume_versions, collection, orch, counters>>

-----------------------------------------------------------------------------
\* The calls are made one at a time by one caller, as the application does

Step(c) ==
  \/ Route(c)
  \/ FetchLatest(c)
  \/ Retrieve(c)
  \/ Dispatch(c)
  \/ Retry(c)
  \/ Respond(c)
  \/ SaveVersion(c)
  \/ DeleteChunks(c)
  \/ AddChunks(c)
  \/ Finish(c)
  \/ Except(c)

Next ==
  \/ start_session(Main)
  \/ \E version_id \in VersionIds(resume_versions) \cup {UnknownVersionId} :
       revert_to_version(Main, version_id)
  \/ process_query(Main)
  \/ Step(Main)

Spec == Init /\ [][Next]_vars

\* The orchestrator is one module-level instance that every browser session
\* of the application is handed, and process_query takes no lock: a caller
\* whose own call is not in progress may call at any time
ConcurrentQuery(c) ==
  /\ frame[c].pc = "idle"
  /\ \/ QueryWithoutSession(c)
     \/ \E query \in Queries, context \in Contexts : QueryRaises(c, query, context)
     \/ \E query \in Queries, context \in Contexts : QueryAccepted(c, query, context)

\* Either caller's call is admitted at any point of the other's; the steps
\* that follow are explored for the first caller's call
ConcurrentNext ==
  \/ start_session(Main)
  \/ \E c \in Callers : ConcurrentQuery(c)
  \/ Step(Main)

ConcurrentSpec == Init /\ [][ConcurrentNext]_vars

\* start_session takes no lock either: a caller that is not inside a call of
\* its own uploads a resume while another caller's process_query is between
\* its steps
ConcurrentStart(c) ==
  /\ frame[c].pc = "idle"
  /\ \/ StartParseFails(c)
     \/ \E d \in Docs : StartIndexFails(c, d)
     \/ \E d \in Docs : StartSucceeds(c, d)
  /\ UNCHANGED <<frame, counters>>

UploadNext ==
  \/ \E c \in Callers : ConcurrentStart(c)
  \/ process_query(Main)
  \/ Step(Main)

UploadSpec == Init /\ [][UploadNext]_vars

\* every step of a call in progress is eventually executed: the interpreter
\* runs the call to its end, and a remote call returns or raises
FairSpec == Spec /\ WF_vars(Step(Main))

-----------------------------------------------------------------------------
\* utils/output_cleaner.py.  A text is a sequence of symbols: the three
\* sentinels, the letters a and b, and a blank for any whitespace.

RESUME_CONTENT == "===RESUME_CONTENT==="
IMPROVEMENTS == "===IMPROVEMENTS==="
END == "===END==="
Blank == " "
Sentinels == {RESUME_CONTENT, IMPROVEMENTS, END}
Plain == {"a", "b", Blank}

\* all texts of at most n symbols of S
TextsUpTo(S, n) == UNION {[1..k -> S] : k \in 0..n}

\* str.strip()
Strip(t) ==
  LET solid == {i \in 1..Len(t) : t[i] # Blank} IN
  IF solid = {} THEN <<>>
  ELSE SubSeq(t, CHOOSE i \in solid : \A j \in solid : i <= j,
                 CHOOSE i \in solid : \A j \in solid : i >= j)

\* sub in text
Contains(t, sub) == \E i \in 1..Len(t) : t[i] = sub

\* str.split(sep): the pieces between the occurrences of sep
RECURSIVE Split(_, _)
Split(t, sep) ==
  IF Contains(t, sep)
  THEN LET i == CHOOSE k \in 1..Len(t) : t[k] = sep /\ \A j \in 1..(k - 1) : t[j] # sep
       IN <<SubSeq(t, 1, i - 1)>> \o Split(SubSeq(t, i + 1, Len(t)), sep)
  ELSE <<t>>

\* the extraction call raised, or returned no content
CallFailed == <<"raise">>

SplitResult(resume_content, improvements) ==
  [resume_content |-> resume_content, improvements |-> improvements]

extract_keeps_end(agent_output, response) ==
  IF response = CallFailed
  THEN SplitResult(agent_output, <<>>)
  ELSE LET result == Strip(response) IN
       IF Contains(result, RESUME_CONTENT) /\ Contains(result, IMPROVEMENTS)
       THEN LET parts == Split(Split(result, RESUME_CONTENT)[2], IMPROVEMENTS) IN
            IF Len(parts) < 2
            THEN SplitResult(agent_output, <<>>)
            ELSE SplitResult(Strip(parts[1]), Strip(parts[2]))
       ELSE SplitResult(result, <<>>)

\* OutputCleaner.extract_resume_and_improvements: response is the content the
\* extraction call returned for agent_output.  parts[1] of a one-element list
\* raises IndexError, which the except clause turns into the fallback.
extract_resume_and_improvements(agent_output, response) ==
  IF response = CallFailed
  THEN SplitResult(agent_output, <<>>)
  ELSE LET result == Strip(response) IN
       IF Contains(result, RESUME_CONTENT) /\ Contains(result, IMPROVEMENTS)
       THEN LET parts == Split(Split(result, RESUME_CONTENT)[2], IMPROVEMENTS) IN
            IF Len(parts) < 2
            THEN SplitResult(agent_output, <<>>)
            ELSE SplitResult(Strip(parts[1]), Strip(Split(parts[2], END)[1]))
       ELSE SplitResult(result, <<>>)

\* the agent outputs and the responses the cleaner is applied to
AgentOutputs == TextsUpTo(Plain, MaxPart)
Responses == TextsUpTo(Sentinels \cup Plain, MaxText) \cup {CallFailed}

\* the response the prompt asks for
Structured(A, B) == <<RESUME_CONTENT>> \o A \o <<IMPROVEMENTS>> \o B \o <<END>>

\* one call of the cleaner
Extract(agent_output, response) ==
  /\ ret' = [op |-> "extract_resume_and_improvements",
             agent_output |-> agent_output, response |-> response,
             cleaned |-> extract_resume_and_improvements(agent_output, response)]
  /\ UNCHANGED <<store, collection, orch, frame, counters>>

\* the call is made once, on a fresh instance, with the response the prompt
\* asks for
ExtractStructured ==
  /\ ret.op = "none"
  /\ \E agent_output \in AgentOutputs, A \in TextsUpTo(Plain, MaxPart),
        B \in TextsUpTo(Plain, MaxPart) : Extract(agent_output, Structured(A, B))

\* the same, with any response or a failure of the call
ExtractAny ==
  /\ ret.op = "none"
  /\ \E agent_output \in AgentOutputs, response \in Responses :
        Extract(agent_output, response)

CleanerNext == ExtractStructured \/ ExtractAny

CleanerSpec == Init /\ [][CleanerNext]_vars

-----------------------------------------------------------------------------
\* agents/job_matching_agent.py: _extract_score.  An analysis text is a
\* sequence of symbols: the word score (in any case), a colon, a blank for any
\* whitespace, a percent sign, a slash, a run of digits, and any other word.

Numerals == {"5", "78", "100"}
AnalysisSymbols == {"score", ":", Blank, "%", "/", "great"} \cup Numerals

\* int(match.group(1))
IntOf(numeral) ==
  CASE numeral = "5" -> 5
    [] numeral = "78" -> 78
    [] OTHER -> 100

\* two runs of digits next to each other would be one run
AnalysisTexts ==
  {t \in TextsUpTo(AnalysisSymbols, MaxAnalysis) :
     \A i \in 1..(Len(t) - 1) : ~(t[i] \in Numerals /\ t[i + 1] \in Numerals)}

\* the first position from i on whose symbol is not in S, Len(t) + 1 if none
Skip(t, i, S) ==
  LET stops == {k \in i..Len(t) : t[k] \notin S} IN
  IF stops = {} THEN Len(t) + 1 ELSE CHOOSE k \in stops : \A j \in stops : k <= j

\* where the group of r'score[:\s]+(\d+)' is, for a match that starts at i
\* (0 when there is no match at i)
ScoreGroup(t, i) ==
  LET j == Skip(t, i + 1, {":", Blank}) IN
  IF t[i] = "score" /\ j > i + 1 /\ j <= Len(t) /\ t[j] \in Numerals THEN j ELSE 0

\* the same for r'(\d+)%'
PercentGroup(t, i) ==
  IF t[i] \in Numerals /\ i + 1 <= Len(t) /\ t[i + 1] = "%" THEN i ELSE 0

\* the same for r'(\d+)\s*/\s*100'
OfHundredGroup(t, i) ==
  LET j == Skip(t, i + 1, {Blank})
      k == Skip(t, j + 1, {Blank}) IN
  IF t[i] \in Numerals /\ j <= Len(t) /\ t[j] = "/" /\ k <= Len(t) /\ t[k] = "100"
  THEN i ELSE 0

\* re.search(pattern, analysis_text): the group of the leftmost match, 0 if
\* the pattern matches nowhere
Search(pattern, t) ==
  LET group(i) == CASE pattern = "score" -> ScoreGroup(t, i)
                    [] pattern = "percent" -> PercentGroup(t, i)
                    [] OTHER -> OfHundredGroup(t, i)
      starts == {i \in 1..Len(t) : group(i) # 0}
  IN IF starts = {} THEN 0 ELSE group(CHOOSE i \in starts : \A j \in starts : i <= j)

\* the loop of _extract_score over a list of patterns
RECURSIVE FirstMatch(_, _)
FirstMatch(patterns, t) ==
  IF patterns = <<>> THEN 0
  ELSE IF Search(Head(patterns), t) # 0 THEN IntOf(t[Search(Head(patterns), t)])
  ELSE FirstMatch(Tail(patterns), t)

extract_score_percent_first(analysis_text) ==
  FirstMatch(<<"percent", "score", "of_hundred">>, analysis_text)

\* JobMatchingAgent._extract_score
extract_score(analysis_text) ==
  FirstMatch(<<"score", "percent", "of_hundred">>, analysis_text)

\* one call of _extract_score, on any analysis text
ExtractScore ==
  /\ ret.op = "none"
  /\ \E analysis_text \in AnalysisTexts :
        ret' = [op |-> "_extract_score", analysis_text |-> analysis_text,
                score |-> extract_score(analysis_text)]
  /\ UNCHANGED <<store, collection, orch, frame, counters>>

ScoreSpec == Init /\ [][ExtractScore]_vars

-----------------------------------------------------------------------------
\* agents/orchestrator.py: the resolution of a requested section name in
\* _handle_section_enhancement, lines 402-432.  A name is a sequence of
\* letters, lower or upper case, and blanks.

UpperSym(x) ==
  CASE x = "e" -> "E" [] x = "s" -> "S" [] x = "w" -> "W" [] x = "none" -> "NONE"
    [] OTHER -> x
LowerSym(x) ==
  CASE x = "E" -> "e" [] x = "S" -> "s" [] x = "W" -> "w" [] x = "NONE" -> "none"
    [] OTHER -> x

\* str.upper(), str.lower()
Upper(t) == [i \in 1..Len(t) |-> UpperSym(t[i])]
Lower(t) == [i \in 1..Len(t) |-> LowerSym(t[i])]

\* sub in t, for two strings
Within(sub, t) ==
  \E i \in 0..(Len(t) - Len(sub)) : \A j \in 1..Len(sub) : t[i + j] = sub[j]

\* str.split(): the words between the blanks
Words_(t) == {w \in {Split(t, Blank)[i] : i \in 1..Len(Split(t, Blank))} : w # <<>>}

\* the section names a text can have: one word, or two words
SectionKeys == {<<"E">>, <<"S">>, <<"S", Blank, "W">>}

\* sections.keys(), in the order of the sections in the text
KeyLists == UNION {Arrangements(SectionKeys, n) : n \in 0..MaxKeys}

\* entities["section_name"], not empty
SectionNames ==
  TextsUpTo({"e", "s", "w", "E", "S", "W", Blank}, MaxName) \ {<<>>}

\* response.content.strip() of the matcher's model, or the call raising
MatcherAnswers ==
  {CallFailed, <<"NONE">>, <<"none">>, <<"E">>, <<"e">>, <<"S">>,
   <<"s", Blank, "w">>, <<"w">>}

\* matched_section = None
NoMatch == <<>>

\* the key at the first of the positions, or None when there is none
FirstKey(keys, hits) ==
  IF hits = {} THEN NoMatch ELSE keys[CHOOSE i \in hits : \A j \in hits : i <= j]

\* lines 407-411
substring_match(section_name, keys) ==
  FirstKey(keys, {i \in 1..Len(keys) :
                    \/ Within(Lower(section_name), Lower(keys[i]))
                    \/ Within(Lower(keys[i]), Lower(section_name))})

match_with_llm_unvalidated(answer, available_sections) ==
  IF answer = CallFailed THEN NoMatch ELSE answer

\* _match_section_with_llm, given what the model answered
match_section_with_llm(answer, available_sections) ==
  IF answer = CallFailed THEN NoMatch
  ELSE IF \E i \in 1..Len(available_sections) : available_sections[i] = answer
       THEN answer
  ELSE IF Upper(answer) = <<"NONE">> THEN NoMatch
  ELSE FirstKey(available_sections,
                {i \in 1..Len(available_sections) :
                   Upper(available_sections[i]) = Upper(answer)})

\* lines 418-423
token_match(section_name, keys) ==
  FirstKey(keys, {i \in 1..Len(keys) :
                    \/ Lower(section_name) \in Words_(Lower(keys[i]))
                    \/ \E word \in Words_(Lower(keys[i])) :
                         Within(word, Lower(section_name))})

match_section_llm_first(section_name, keys, answer) ==
  LET by_llm == match_section_with_llm(answer, keys)
      by_substring == substring_match(section_name, keys)
      by_token == token_match(section_name, keys) IN
  IF \E i \in 1..Len(keys) : keys[i] = section_name
  THEN [section |-> section_name, by |-> "exact", consulted |-> FALSE]
  ELSE IF by_llm # NoMatch
       THEN [section |-> by_llm, by |-> "llm", consulted |-> TRUE]
  ELSE IF by_substring # NoMatch
       THEN [section |-> by_substring, by |-> "substring", consulted |-> TRUE]
  ELSE IF by_token # NoMatch
       THEN [section |-> by_token, by |-> "token", consulted |-> TRUE]
  ELSE [section |-> NoMatch, by |-> "none", consulted |-> TRUE]

\* lines 402-432: the section the request resolves to, the matcher that found
\* it, and whether the generative matcher was called
match_section(section_name, keys, answer) ==
  LET by_substring == substring_match(section_name, keys)
      by_llm == match_section_with_llm(answer, keys)
      by_token == token_match(section_name, keys) IN
  IF \E i \in 1..Len(keys) : keys[i] = section_name
  THEN [section |-> section_name, by |-> "exact", consulted |-> FALSE]
  ELSE IF by_substring # NoMatch
       THEN [section |-> by_substring, by |-> "substring", consulted |-> FALSE]
  ELSE IF by_llm # NoMatch
       THEN [section |-> by_llm, by |-> "llm", consulted |-> TRUE]
  ELSE IF by_token # NoMatch
       THEN [section |-> by_token, by |-> "token", consulted |-> TRUE]
  ELSE [section |-> NoMatch, by |-> "none", consulted |-> TRUE]

\* one resolution, for any request, any sections and any answer of the matcher
MatchSection ==
  /\ ret.op = "none"
  /\ \E section_name \in SectionNames, keys \in KeyLists, answer \in MatcherAnswers :
       ret' = [op |-> "match_section", section_name |-> section_name, keys |-> keys,
               answer |-> answer, matched |-> match_section(section_name, keys, answer)]
  /\ UNCHANGED <<store, collection, orch, frame, counters>>

SectionSpec == Init /\ [][MatchSection]_vars

-----------------------------------------------------------------------------
\* tools/resume_parser.py: format_resume_sections and extract_sections on the
\* lines of a text.  A line is a section name on its own, the line of "="
\* signs format_resume_sections writes under a name, an empty line, or a line
\* of other text.

Rule == "====="

\* section_order, cut to the names used here; HEADER is not in common_headers
section_order == <<"HEADER", "EXPERIENCE", "SKILLS">>
common_headers == {"EXPERIENCE", "SKILLS"}

\* the content of a section: its lines, none for a section that is absent
SectionContents ==
  UNION {[1..k -> {"John Doe", Rule, "HEADER"}] : k \in 0..MaxLines}

\* the dictionaries extract_sections can return: no section is empty
SectionMaps == [{"HEADER", "EXPERIENCE", "SKILLS"} -> SectionContents]

\* DocumentGenerator.format_resume_sections: for each section in the order,
\* an empty line, the name, the rule, and the content
RECURSIVE FormatFrom(_, _)
FormatFrom(sections, i) ==
  IF i > Len(section_order) THEN <<>>
  ELSE (IF sections[section_order[i]] # <<>>
        THEN <<"", section_order[i], Rule>> \o sections[section_order[i]]
        ELSE <<>>)
       \o FormatFrom(sections, i + 1)

format_sections(sections) == FormatFrom(sections, 1)

\* the loop of extract_sections from line i on
RECURSIVE ExtractFrom(_, _, _, _, _)
ExtractFrom(lines, i, sections, current_section, current_content) ==
  LET saved == IF current_content # <<>>
               THEN [sections EXCEPT ![current_section] = current_content]
               ELSE sections IN
  IF i > Len(lines) THEN saved
  ELSE IF lines[i] \in common_headers
       THEN ExtractFrom(lines, i + 1, saved, lines[i], <<>>)
  ELSE IF lines[i] # ""
       THEN ExtractFrom(lines, i + 1, sections, current_section,
                        Append(current_content, lines[i]))
  ELSE ExtractFrom(lines, i + 1, sections, current_section, current_content)

\* ResumeParser.extract_sections
extract_sections(lines) ==
  ExtractFrom(lines, 1, [n \in {"HEADER", "EXPERIENCE", "SKILLS"} |-> <<>>], "HEADER", <<>>)

\* sections formatted into a text and the text parsed again, as the next
\* section enhancement does with the version the last one saved
RoundTrip ==
  /\ ret.op = "none"
  /\ \E sections \in SectionMaps :
       ret' = [op |-> "format_resume_sections", sections |-> sections,
               text |-> format_sections(sections),
               parsed |-> extract_sections(format_sections(sections))]
  /\ UNCHANGED <<store, collection, orch, frame, counters>>

RoundTripSpec == Init /\ [][RoundTrip]_vars

-----------------------------------------------------------------------------
\* agents/conversation_router.py: parse_complex_query

\* str.lower() of an intent
IntentLower(intent) == IF intent = "JOB_MATCHING" THEN "job_matching" ELSE intent

\* an element of the parsed list: a dictionary, or a value that is none; the
\* intent of a dictionary is a label in any case, a label that is no agent
\* type, missing, or a value that is not a string
TaskData ==
  [isDict : {TRUE},
   intent : {"company_research", "JOB_MATCHING", "section_enhancement", "general",
             "other", "missing", "null"},
   description : {"improve summary", "missing"}]
  \cup {[isDict |-> FALSE, intent |-> "missing", description |-> "missing"]}

\* what the model call gave: it raised, its text is no JSON, the JSON is a
\* number or a dictionary, or the JSON is a list
DetectionResponses ==
  {[kind |-> k, items |-> <<>>] : k \in {"raise", "text", "number", "dict"}}
  \cup {[kind |-> "list", items |-> items] : items \in TextsUpTo(TaskData, MaxTasks)}

Task(task_id, description, agent_type) ==
  [task_id |-> task_id, description |-> description, agent_type |-> agent_type,
   priority |-> task_id]

\* ConversationRouter._fallback_single_task
fallback_single_task(query, decision) ==
  <<Task(1, query, route_query(decision).agent_type)>>

\* the loop over enumerate(tasks_data); an element that has no get, or an
\* intent that has no lower, raises
RECURSIVE TasksFrom(_, _, _)
TasksFrom(query, items, i) ==
  IF i > Len(items) THEN [raised |-> FALSE, tasks |-> <<>>]
  ELSE IF ~items[i].isDict \/ items[i].intent = "null"
       THEN [raised |-> TRUE, tasks |-> <<>>]
  ELSE LET rest == TasksFrom(query, items, i + 1)
           intent == IntentLower(IF items[i].intent = "missing" THEN "general"
                                 ELSE items[i].intent)
           task == Task(i,
                        IF items[i].description = "missing" THEN query
                        ELSE items[i].description,
                        IF intent \in AgentTypes THEN intent ELSE "general")
       IN [raised |-> rest.raised, tasks |-> <<task>> \o rest.tasks]

parse_complex_query_no_fallback(query, response, decision) ==
  IF response.kind # "list" THEN fallback_single_task(query, decision)
  ELSE LET built == TasksFrom(query, response.items, 1) IN
       IF built.raised THEN fallback_single_task(query, decision)
       ELSE built.tasks

\* ConversationRouter.parse_complex_query
parse_complex_query(query, response, decision) ==
  IF response.kind # "list" THEN fallback_single_task(query, decision)
  ELSE LET built == TasksFrom(query, response.items, 1) IN
       IF built.raised \/ built.tasks = <<>>
       THEN fallback_single_task(query, decision)
       ELSE built.tasks

\* one call of parse_complex_query, whatever the classifier does with the
\* query when the fallback asks it
ParseComplexQuery ==
  /\ ret.op = "none"
  /\ \E query \in Queries, response \in DetectionResponses,
        decision \in {d \in RoutingDecisions :
                        /\ d.confidence = 90
                        /\ d.entities = NoEntities
                        /\ ~d.requires_followup} \cup {ClassifierFailed} :
       ret' = [op |-> "parse_complex_query", query |-> query, response |-> response,
               decision |-> decision,
               tasks |-> parse_complex_query(query, response, decision)]
  /\ UNCHANGED <<store, collection, orch, frame, counters>>

DecomposeSpec == Init /\ [][ParseComplexQuery]_vars

-----------------------------------------------------------------------------
\* The two stores called directly, in any order and for any session, as
\* orchestrators that each work on a session of their own call them

\* what a call of a store left behind: the session it was made for
StoreReturn(op, session_id, results) ==
  [op |-> op, session |-> session_id, results |-> results]

\* FirebaseService.create_session
create_session ==
  /\ nSessions < MaxSessions
  /\ nSessions' = nSessions + 1
  /\ ret' = StoreReturn("create_session", nSessions + 1, <<>>)
  /\ UNCHANGED <<conversations, resume_versions, collection, orch, frame, counters>>

StoreAddMessage(session_id) ==
  /\ Len(conversations[session_id]) < MaxStored
  /\ conversations' =
       add_message(conversations, nSessions, session_id, "user", "q300", NoMeta)
  /\ ret' = StoreReturn("add_message", session_id, <<>>)
  /\ UNCHANGED <<nSessions, resume_versions, collection, orch, frame, counters>>

StoreSaveVersion(session_id, d) ==
  /\ Len(resume_versions[session_id]) < MaxStored
  /\ resume_versions' =
       save_resume_version(resume_versions, session_id, d, <<"Updated">>, "none")
  /\ ret' = StoreReturn("save_resume_version", session_id, <<>>)
  /\ UNCHANGED <<conversations, nSessions, collection, orch, frame, counters>>

\* add_resume_to_index for a version of the session: collection.add stores its
\* chunks, or raises
StoreAddChunks(session_id, i) ==
  LET version == resume_versions[session_id][i] IN
  /\ \/ collection' = add_resume_to_index(collection, session_id, version.content,
                                           version.version_id)
     \/ collection' = collection
  /\ ret' = StoreReturn("add_resume_to_index", session_id, <<>>)
  /\ UNCHANGED <<store, orch, frame, counters>>

StoreDeleteChunks(session_id) ==
  /\ \/ collection' = delete_session_data(collection, session_id)
     \/ collection' = collection
  /\ ret' = StoreReturn("delete_session_data", session_id, <<>>)
  /\ UNCHANGED <<store, orch, frame, counters>>

StoreSearch(session_id) ==
  /\ \E results \in search_similar_content(collection, session_id, DefaultResults) :
       ret' = StoreReturn("search_similar_content", session_id, results)
  /\ UNCHANGED <<store, collection, orch, frame, counters>>

StoreNext ==
  \/ create_session
  \/ \E session_id \in SessionIds : StoreAddMessage(session_id)
  \/ \E session_id \in SessionIds, d \in Docs : StoreSaveVersion(session_id, d)
  \/ \E session_id \in SessionIds :
       \E i \in 1..Len(resume_versions[session_id]) : StoreAddChunks(session_id, i)
  \/ \E session_id \in SessionIds : StoreDeleteChunks(session_id)
  \/ \E session_id \in SessionIds : StoreSearch(session_id)

StoreSpec == Init /\ [][StoreNext]_vars

-----------------------------------------------------------------------------
\* Properties

Running(c) == frame[c].pc # "idle"

\* the texts of a set of chunks, without the ids they are stored under
ChunkTexts(chunks) == {<<e.d, e.chunk_index>> : e \in chunks}

\* the texts the index holds for the session are those of its latest version
IndexMatchesLatest(coll, rv, s) ==
  ChunkTexts(SessionChunks(coll, s)) =
    {<<get_latest_resume(rv, s).content, i>> :
       i \in split_into_chunks(get_latest_resume(rv, s).content)}

\* C1: the version sequence and the message sequence of every session only
\* grow by appending: in every step the old sequence is a prefix of the new one.
C1_AppendOnly ==
  [][/\ \A s \in SessionKeys : IsPrefix(resume_versions[s], resume_versions'[s])
     /\ \A s \in SessionIds : IsPrefix(conversations[s], conversations'[s])]_vars

C1_Witness ==
  \E s \in SessionIds : Len(resume_versions[s]) >= 3 /\ Len(conversations[s]) >= 3

\* C2: a revert_to_version call that finds version V, made with an active
\* session, appends to that session's versions exactly one version, whose
\* content is V's; the versions that existed stay where they were, in every
\* session, and the new version is the latest.
C2_RevertAppends ==
  [][(/\ nreverts' # nreverts
      /\ current_session # NoSession
      /\ ret'.version_id \in VersionIds(resume_versions))
     => LET V == CHOOSE v \in VersionsOf(resume_versions) : v.version_id = ret'.version_id
            old == resume_versions[current_session]
            new == resume_versions'[current_session]
        IN /\ ret'.status = "true"
           /\ Len(new) = Len(old) + 1
           /\ \A i \in 1..Len(old) : new[i] = old[i]
           /\ new[Len(new)].content = V.content
           /\ get_latest_resume(resume_versions', current_session).content = V.content
           /\ \A s \in SessionKeys \ {current_session} :
                resume_versions'[s] = resume_versions[s]]_vars

\* a revert to the first version was made after another version had replaced it
C2_Witness ==
  /\ ret.op = "revert_to_version"
  /\ ret.status = "true"
  /\ ret.session # NoSession
  /\ LET h == resume_versions[ret.session] IN
       /\ Len(h) = 3
       /\ ret.version_id = h[1].version_id
       /\ h[2].content # h[1].content
       /\ h[3].content = h[1].content

\* C3 (as claimed): an operation that starts with the index of the active
\* session holding the chunks of its latest version ends with it so; stated
\* for revert_to_version, which the claim names, reverting to a version of the
\* active session.
C3_RevertKeepsIndexOnLatest ==
  [][(/\ nreverts' # nreverts
      /\ current_session # NoSession
      /\ ret'.status = "true"
      /\ ret'.version_id.s = current_session
      /\ IndexMatchesLatest(collection, resume_versions, current_session))
     => IndexMatchesLatest(collection', resume_versions', current_session')]_vars

\* C4: the handler is invoked at most twice for a query, and what the second
\* invocation returns is never a request for the full context.
C4_RetryAtMostOnce ==
  \A c \in Callers :
    /\ frame[c].invocations <= 2
    /\ (frame[c].invocations = 2 => frame[c].result.status # "needs_full_context")
    /\ (frame[c].result.used_fallback => frame[c].result.status # "needs_full_context")

C4_Witness ==
  \E c \in Callers :
    /\ frame[c].pc = "respond"
    /\ frame[c].invocations = 2
    /\ frame[c].result.used_fallback
    /\ frame[c].result.status = "success"

\* the message stored last for the active session is the assistant's reply
LastReply == Last(conversations[current_session])

Replied(c) == frame[c].pc \in {"save", "delete", "add", "finish"}

\* C5: when the best-ranked result of the search is at distance 0.8 or more,
\* the retriever returns nothing, the handler is given the full text of the
\* latest version and the stored used_rag flag is false.
C5_FarResultUsesFullText ==
  \A c \in Callers :
    (Running(c) /\ frame[c].distance # NoDistance /\ frame[c].distance >= Threshold)
    => /\ ~frame[c].use_rag
       /\ frame[c].pc = "dispatch" =>
            /\ ~frame[c].relevant_context.found
            /\ ResumeText(frame[c]) =
                 FullText(get_latest_resume(resume_versions, current_session).content)
       /\ Replied(c) =>
            /\ LastReply.role = "assistant"
            /\ ~LastReply.metadata.used_rag

C5_Witness ==
  \E c \in Callers :
    /\ frame[c].pc = "finish"
    /\ frame[c].distance = Threshold
    /\ SessionChunks(collection, current_session) # {}
    /\ LastReply.role = "assistant"
    /\ ~LastReply.metadata.used_rag

\* the ranking the search returns: distinct chunks of the session, as many as
\* asked for or as the session has
IsRanking(pieces, coll, s) ==
  /\ Len(pieces) = Min(DefaultResults, Cardinality(SessionChunks(coll, s)))
  /\ \A i \in 1..Len(pieces) : pieces[i] \in SessionChunks(coll, s)
  /\ \A i, j \in 1..Len(pieces) : pieces[i] = pieces[j] => i = j

\* C6 (as claimed): when the best-ranked result is at a distance below 0.8 the
\* retriever returns a context and used_rag is true.
C6_NearResultUsesContext ==
  \A c \in Callers :
    (frame[c].pc = "dispatch" /\ frame[c].distance # NoDistance
       /\ frame[c].distance < Threshold)
    => frame[c].relevant_context.found /\ frame[c].use_rag

\* C6 (amended): when the best-ranked result is at a distance below 0.8 the
\* retriever returns the ranked chunks joined by blank lines, and used_rag is
\* true exactly when that joined text is not the empty string.
C6_NearResultUsesNonEmptyContext ==
  \A c \in Callers :
    (Running(c) /\ frame[c].distance # NoDistance /\ frame[c].distance < Threshold)
    => /\ frame[c].pc = "dispatch" =>
            /\ frame[c].relevant_context.found
            /\ IsRanking(frame[c].relevant_context.pieces, collection, current_session)
            /\ frame[c].use_rag = ~JoinIsEmpty(frame[c].relevant_context.pieces)
            /\ frame[c].use_rag =>
                 ResumeText(frame[c]) = RagText(frame[c].relevant_context.pieces)
            /\ ~frame[c].use_rag =>
                 /\ Cardinality(SessionChunks(collection, current_session)) = 1
                 /\ \A e \in SessionChunks(collection, current_session) : ChunkIsEmpty(e)
       /\ Replied(c) =>
            /\ LastReply.role = "assistant"
            /\ LastReply.metadata.used_rag = frame[c].use_rag

C6_Witness ==
  \E c \in Callers :
    /\ frame[c].pc = "finish"
    /\ frame[c].distance < Threshold
    /\ frame[c].distance # NoDistance
    /\ frame[c].use_rag
    /\ LastReply.metadata.used_rag
    /\ Cardinality(SessionChunks(collection, current_session)) = 2

\* a process_query call that was admitted has ended and nothing ran since
QueryEnded == AllIdle /\ ret.op = "process_query" /\ ret.status # "no_session"

\* C7: every process_query call admitted with an active session ends, on
\* every path, and while it runs and when it has ended the active session is
\* the one the call began with.
C7_QueryEnds ==
  /\ \A c \in Callers : Running(c) ~> ~Running(c)
  /\ [](\A c \in Callers : Running(c) => current_session = frame[c].session0)
  /\ [](QueryEnded => current_session = ret.before /\ current_session # NoSession)

\* a call ended through the exception handler and left the session active
C7_Witness ==
  /\ QueryEnded
  /\ ret.status = "failed"
  /\ current_session = ret.before
  /\ Last(conversations[current_session]).role = "system"

\* C8 (as claimed): no exception of a pipeline step reaches the caller: a call
\* never ends by raising, and a call that met an exception ends with a system
\* message stored last.
C8_NoExceptionEscapes ==
  /\ ret.status # "raised"
  /\ (QueryEnded /\ ret.status = "failed") =>
       Last(conversations[current_session]).role = "system"

\* C9: after a successful start_session the new session has exactly one
\* version, named Original, holding the parsed text; the session has at least
\* one indexed chunk, all of that version; it is the active session and the
\* conversation buffer is empty.
C9_StartCreatesSession ==
  (AllIdle /\ ret.op = "start_session" /\ ret.status = "success")
  => LET s == ret.session IN
       /\ s = nSessions
       /\ s # ret.before
       /\ Len(resume_versions[s]) = 1
       /\ resume_versions[s][1].version_name = <<"Original">>
       /\ resume_versions[s][1].content = current_resume
       /\ resume_versions[s][1].session_id = s
       /\ Cardinality(SessionChunks(collection, s)) >= 1
       /\ \A e \in SessionChunks(collection, s) :
            e.d = current_resume /\ e.version_id = resume_versions[s][1].version_id
       /\ Cardinality(SessionChunks(collection, s)) =
            IF Words(current_resume) = 0 THEN 1
            ELSE (Words(current_resume) + ChunkSize - 1) \div ChunkSize
       /\ current_session = s
       /\ conversation_history = Buffer(<<>>)

\* a second session was started after a query had been answered in the first
C9_Witness ==
  /\ AllIdle
  /\ ret.op = "start_session"
  /\ ret.status = "success"
  /\ ret.session = 2
  /\ ret.before = 1
  /\ Len(conversations[1]) >= 3
  /\ Last(conversations[1]).role = "assistant"

\* C10: a start_session that returns an error leaves the active session as it
\* was; with no active session no query enters the pipeline, and
\* process_query answers that there is no active session.
C10_FailedStartKeepsSession ==
  /\ (AllIdle /\ ret.op = "start_session" /\ ret.status = "error")
       => current_session = ret.before
  /\ current_session = NoSession => AllIdle
  /\ (AllIdle /\ ret.op = "process_query" /\ current_session = NoSession)
       => ret.status = "no_session"

\* indexing failed in start_session, and the next process_query was refused
C10_Witness ==
  /\ AllIdle
  /\ nSessions >= 1
  /\ current_session = NoSession
  /\ ret.op = "process_query"
  /\ ret.status = "no_session"

\* C11: a process_query call made while no session is active returns the
\* no-session error and changes nothing: no message, no version, no session,
\* no chunk, the conversation buffer and the session pointer as they were, and
\* no step of the pipeline (classifier, search, handler) is begun.
C11_NoSessionNoEffect ==
  [][(AllIdle /\ current_session = NoSession /\ ret'.op = "process_query")
     => /\ ret'.status = "no_session"
        /\ UNCHANGED <<conversations, nSessions, resume_versions, collection,
                       current_session, current_resume, conversation_history, frame>>]_vars

\* the call was refused while the store held the session and the version of a
\* start_session that failed at indexing
C11_Witness ==
  /\ ret.op = "process_query"
  /\ ret.status = "no_session"
  /\ current_session = NoSession
  /\ \E s \in SessionIds : Len(resume_versions[s]) = 1 /\ conversations[s] = <<>>
  /\ collection = {}
  /\ conversation_history = Buffer(<<>>)

\* C12 (as claimed): at most one process_query call is inside the pipeline at
\* any time.
C12_OneQueryAtATime ==
  \A c1, c2 \in Callers : (Running(c1) /\ Running(c2)) => c1 = c2

\* C13 (as claimed): the version a successful section enhancement appends
\* holds the resolved section and every other section of the version that was
\* the latest before it, whether the handler worked on retrieved context or on
\* the full document.
C13_EnhancementKeepsOtherSections ==
  [][\A c \in Callers :
       (/\ frame[c].pc = "save"
        /\ frame'[c].pc = "delete"
        /\ frame[c].agent = "section_enhancement")
       => LET prev == get_latest_resume(resume_versions, current_session)
              new == get_latest_resume(resume_versions', current_session)
              m == new.version_name[2]
          IN /\ new.version_name[1] = "Enhanced"
             /\ m \in DocSections(new.content)
             /\ DocSections(prev.content) \ {m} \subseteq DocSections(new.content)]_vars

\* the versions a call in progress has appended so far to its session
Appended(c) ==
  Len(resume_versions[frame[c].session0]) - frame[c].versions0

\* the handler's result carries an updated resume, empty or not
HasUpdatedResume(r) == r.updated_resume # NoDoc

\* C14 (as claimed): a call whose handler returned an updated resume has
\* appended exactly one version when it is about to return, and any other
\* call none.
C14_OneVersionPerUpdate ==
  \A c \in Callers :
    frame[c].pc = "finish"
    => Appended(c) = IF HasUpdatedResume(frame[c].result) THEN 1 ELSE 0

\* C14 (amended): a call appends one version, holding the handler's updated
\* resume under the handler's label, when that updated resume is not the empty
\* text, and none otherwise (empty updated resume, needs_info, unresolved
\* section, general answer, handler failure); never more than one, with or
\* without the retry.
C14_OneVersionPerNonEmptyUpdate ==
  \A c \in Callers :
    Running(c)
    => LET f == frame[c]
           h == resume_versions[f.session0]
       IN /\ Appended(c) \in {0, 1}
          /\ f.pc = "finish"
               => Appended(c) = IF Truthy(f.result.updated_resume) THEN 1 ELSE 0
          /\ Appended(c) = 1
               => /\ Truthy(f.result.updated_resume)
                  /\ Last(h).content = f.result.updated_resume
                  /\ Last(h).version_name = f.result.version_name
                  /\ Last(h).version_id = f.version_id
          /\ (f.agent = "general" \/ f.result.status \in {"needs_info", "error", "raise"})
               => Appended(c) = 0

\* the retry fired and the call appended the one version of its second result
C14_Witness ==
  \E c \in Callers :
    /\ frame[c].pc = "finish"
    /\ frame[c].invocations = 2
    /\ frame[c].result.used_fallback
    /\ Appended(c) = 1
    /\ Last(resume_versions[current_session]).version_name = frame[c].result.version_name

\* C15 (as claimed): when the re-index step of a call that appended a version
\* has completed, the chunks indexed for the session are exactly the chunks of
\* the new version, and no chunk of an earlier version is left.
C15_ReindexReplacesChunks ==
  \A c \in Callers :
    (frame[c].pc = "finish" /\ frame[c].version_id # UnknownVersionId)
    => SessionChunks(collection, current_session) =
         ChunksOf(current_session, frame[c].version_id, frame[c].result.updated_resume)

\* C16: route_query always hands process_query a decision: the call goes on
\* from routing to the next step whatever the classifier did, and when the
\* classifier failed the decision is the general agent with confidence 0.5, a
\* reasoning that reports the failure, no entities and requires_followup true.
C16_RouterFallsBack ==
  /\ [](\A c \in Callers :
          (frame[c].pc = "latest" /\ frame[c].routing.reasoning = "fallback")
          => /\ frame[c].agent = "general"
             /\ frame[c].routing.confidence = FallbackConfidence
             /\ frame[c].entities = NoEntities
             /\ frame[c].routing.requires_followup)
  /\ [][\A c \in Callers :
          (frame[c].pc = "route" /\ frame'[c] # frame[c])
          => /\ frame'[c].pc = "latest"
             /\ frame'[c].agent \in AgentTypes
             /\ frame'[c].routing.reasoning \in {"llm", "fallback"}
             /\ ret' = ret]_vars

\* the classifier failed for a query of the second session
C16_Witness ==
  \E c \in Callers :
    /\ frame[c].pc = "latest"
    /\ frame[c].routing.reasoning = "fallback"
    /\ frame[c].routing.requires_followup
    /\ current_session = 2
    /\ Last(conversations[current_session]).role = "user"

\* the search of the call raised, or its best result carries no distance
SearchUnusable(f) ==
  f.searched = "raised" \/ (f.searched = "returned" /\ f.distance = NoDistance)

\* C17: when the search raises or its best result has no usable distance the
\* retriever returns nothing and the call goes on to the handler: the handler
\* is given the full text of the latest version and the stored used_rag flag
\* is false.
C17_IndexFailureAbsorbed ==
  /\ [](\A c \in Callers :
          (Running(c) /\ SearchUnusable(frame[c]))
          => /\ ~frame[c].use_rag
             /\ frame[c].pc = "dispatch" =>
                  /\ frame[c].relevant_context = NoContext
                  /\ ResumeText(frame[c]) =
                       FullText(get_latest_resume(resume_versions, current_session).content)
             /\ Replied(c) =>
                  /\ LastReply.role = "assistant"
                  /\ ~LastReply.metadata.used_rag)
  /\ [][\A c \in Callers :
          (frame[c].pc = "retrieve" /\ frame'[c] # frame[c])
          => frame'[c].pc = "dispatch" /\ ret' = ret]_vars

\* the search raised although the session has two chunks, and the call
\* answered from the full text
C17_Witness ==
  \E c \in Callers :
    /\ frame[c].pc = "finish"
    /\ frame[c].searched = "raised"
    /\ Cardinality(SessionChunks(collection, current_session)) = 2
    /\ frame[c].result.status = "success"
    /\ LastReply.role = "assistant"
    /\ ~LastReply.metadata.used_rag

Extracted == ret.op = "extract_resume_and_improvements"

\* C18: when the response parsed is RESUME_CONTENT A IMPROVEMENTS B END with
\* no sentinel inside A or B, the resume content returned is A and the
\* improvements returned are B, each without its surrounding whitespace.
C18_StructuredRoundTrip ==
  LET t == ret.response
      marks == {i \in 1..Len(t) : t[i] \in Sentinels}
  IN (/\ Extracted
      /\ Cardinality(marks) = 3
      /\ t[1] = RESUME_CONTENT
      /\ t[Len(t)] = END
      /\ \E i \in marks : t[i] = IMPROVEMENTS)
     => LET i == CHOOSE k \in marks : t[k] = IMPROVEMENTS
            A == SubSeq(t, 2, i - 1)
            B == SubSeq(t, i + 1, Len(t) - 1)
        IN /\ ret.cleaned.resume_content = Strip(A)
           /\ ret.cleaned.improvements = Strip(B)
           /\ \A k \in 1..Len(ret.cleaned.resume_content) :
                ret.cleaned.resume_content[k] \notin Sentinels
           /\ \A k \in 1..Len(ret.cleaned.improvements) :
                ret.cleaned.improvements[k] \notin Sentinels

\* A and B both carry text inside whitespace
C18_Witness ==
  /\ Extracted
  /\ ret.response = Structured(<<Blank, "a">>, <<"b", Blank>>)
  /\ ret.cleaned = SplitResult(<<"a">>, <<"b">>)

\* RESUME_CONTENT comes before an IMPROVEMENTS somewhere in the text
SentinelsInOrder(t) ==
  \E i, j \in 1..Len(t) : i < j /\ t[i] = RESUME_CONTENT /\ t[j] = IMPROVEMENTS

\* C19 (as claimed): when the extraction call fails, or its response does not
\* hold the two sentinels in order, the cleaner returns the whole raw agent
\* output as the resume content, and empty improvements.
C19_DegradesToRawInput ==
  (Extracted /\ (ret.response = CallFailed \/ ~SentinelsInOrder(ret.response)))
  => ret.cleaned = SplitResult(ret.agent_output, <<>>)

\* the handler has what it needs to call its agent
MissingInput(f) ==
  \/ f.agent = "company_research" /\ ~f.entities.company
  \/ f.agent = "job_matching" /\ QLen(f.query) <= JobDescriptionFloor

\* C20: a company query without a company entity, and a job query of at most
\* 300 characters, get the needs_info result at once: no agent and no output
\* cleaner is called, no retry is made, the call stores the prompt as its
\* reply and returns needs_info, and no step of the call changes the versions
\* or the index.
C20_MissingInputAsksBack ==
  /\ [][\A c \in Callers :
          (frame[c].pc = "dispatch" /\ MissingInput(frame[c]) /\ frame'[c] # frame[c])
          => /\ frame'[c].pc = "respond"
             /\ frame'[c].result.status = "needs_info"
             /\ ~frame'[c].result.agent_called
             /\ frame'[c].invocations = 1]_vars
  /\ [][\A c \in Callers :
          (frame[c].result.status = "needs_info" /\ frame'[c] # frame[c])
          => /\ UNCHANGED <<resume_versions, collection>>
             /\ ~frame[c].result.agent_called
             /\ \/ frame[c].pc = "respond" /\ frame'[c].pc = "finish"
                \/ /\ frame[c].pc = "finish"
                   /\ frame'[c].pc = "idle"
                   /\ ret'.op = "process_query"
                   /\ ret'.status = "needs_info"]_vars
  /\ [][\A c \in Callers :
          frame[c].pc \in {"route", "latest", "retrieve", "dispatch"}
          => UNCHANGED <<resume_versions, collection>>]_vars

\* a job query of exactly 300 characters was asked for a job description
C20_Witness ==
  /\ AllIdle
  /\ ret.op = "process_query"
  /\ ret.status = "needs_info"
  /\ LastReply.role = "assistant"
  /\ LastReply.content = "ask_job_description"
  /\ LastReply.metadata.agent = "job_matching"
  /\ Len(resume_versions[current_session]) = 1
  /\ SessionChunks(collection, current_session) # {}

\* the numbers a pattern captures at its matches anywhere in the text
Captures(pattern, t) ==
  CASE pattern = "score" ->
         {IntOf(t[ScoreGroup(t, i)]) : i \in {k \in 1..Len(t) : ScoreGroup(t, k) # 0}}
    [] pattern = "percent" ->
         {IntOf(t[i]) : i \in {k \in 1..Len(t) : PercentGroup(t, k) # 0}}
    [] OTHER ->
         {IntOf(t[i]) : i \in {k \in 1..Len(t) : OfHundredGroup(t, k) # 0}}

\* C21: the score is a number captured by `score: N` when that pattern
\* matches anywhere in the text, else one captured by `N%` when that matches,
\* else one captured by `N/100`, else 0: the order of the patterns decides,
\* not the place of the match.
C21_ScoreByPatternOrder ==
  ret.op = "_extract_score"
  => LET t == ret.analysis_text IN
     /\ Captures("score", t) # {} => ret.score \in Captures("score", t)
     /\ (Captures("score", t) = {} /\ Captures("percent", t) # {})
          => ret.score \in Captures("percent", t)
     /\ (Captures("score", t) = {} /\ Captures("percent", t) = {}
          /\ Captures("of_hundred", t) # {})
          => ret.score \in Captures("of_hundred", t)
     /\ (Captures("score", t) = {} /\ Captures("percent", t) = {}
          /\ Captures("of_hundred", t) = {})
          => ret.score = 0
     /\ t = <<"score", ":", "78", "/", "100">> => ret.score = 78
     /\ t = <<"great">> => ret.score = 0

\* a percentage comes first in the text, and the score pattern decides
C21_Witness ==
  /\ ret.op = "_extract_score"
  /\ ret.analysis_text = <<"5", "%", "score", ":", "78">>
  /\ ret.score = 78

\* C22 (as claimed): a call about to return the result of a section request
\* that no matcher resolved has a result whose text lists every section
\* header of the session's resume, was produced without calling the section
\* agent, has appended no version, and is stored as an assistant message.
C22_UnresolvedSectionListsHeaders ==
  \A c \in Callers :
    (frame[c].pc = "finish" /\ frame[c].result.status = "error")
    => /\ frame[c].result.listed =
            DocSections(get_latest_resume(resume_versions, frame[c].session0).content)
       /\ frame[c].invocations = 1 => ~frame[c].result.agent_called
       /\ Appended(c) = 0
       /\ LastReply.role = "assistant"
       /\ LastReply.content = frame[c].result.response

\* C23 (as claimed): a step of a call of process_query in progress changes
\* the messages, the versions and the chunks of no session other than the one
\* that was active when the call began.
C23_WritesTargetStartingSession ==
  [][\A c \in Callers :
       (Running(c) /\ frame'[c] # frame[c])
       => \A s \in SessionIds \ {frame[c].session0} :
            /\ conversations'[s] = conversations[s]
            /\ resume_versions'[s] = resume_versions[s]
            /\ SessionChunks(collection', s) = SessionChunks(collection, s)]_vars

\* C24 (as claimed): whenever the assistant message of a call whose result
\* carries an updated resume is in the store, the version of that resume has
\* been appended and its chunks are in the index.
C24_VersionBeforeMessage ==
  \A c \in Callers :
    (Replied(c) /\ Truthy(frame[c].result.updated_resume))
    => /\ Appended(c) = 1
       /\ Last(resume_versions[frame[c].session0]).content = frame[c].result.updated_resume
       /\ ChunksOf(frame[c].session0, frame[c].version_id, frame[c].result.updated_resume)
            \subseteq collection

\* C25 (as claimed): a call about to return the error result of the
\* exception handler of process_query has appended no version, and the
\* session's chunks are those the index held when the call began.
C25_FailedQueryChangesNothing ==
  \A c \in Callers :
    frame[c].pc = "except"
    => /\ Appended(c) = 0
       /\ SessionChunks(collection, frame[c].session0) = frame[c].chunks0

\* what a handler's result says, apart from the marks the orchestrator adds
Outcome(r) == <<r.status, r.response, r.updated_resume, r.version_name, r.listed>>

\* C26: after a handler signalled needs_full_context the next step invokes
\* the handler of the same agent type once more, with the same query and
\* entities, on the full text of the latest version and with using_rag false,
\* and the result is marked used_fallback; the result and the metadata of the
\* assistant message carry used_fallback true exactly when that second
\* invocation took place.
C26_FallbackRetriesOnFullText ==
  /\ [][\A c \in Callers :
          (frame[c].pc = "retry" /\ frame'[c] # frame[c])
          => /\ frame[c].result.status = "needs_full_context"
             /\ frame'[c].agent = frame[c].agent
             /\ frame'[c].invocations = 2
             /\ frame'[c].result.used_fallback
             /\ \E r \in handle(frame[c].agent, frame[c].query,
                                FullText(get_latest_resume(resume_versions,
                                                           frame[c].session0).content),
                                frame[c].entities.company, frame[c].entities.section,
                                FALSE) :
                  Outcome(frame'[c].result) = Outcome(r)]_vars
  /\ [](\A c \in Callers :
          /\ frame[c].pc \in {"respond", "save", "delete", "add", "finish"}
             => frame[c].result.used_fallback = (frame[c].invocations = 2)
          /\ Replied(c)
             => LastReply.metadata.used_fallback = frame[c].result.used_fallback)

\* a call about to return the result of its second invocation
C26_Witness ==
  /\ frame[Main].pc = "finish"
  /\ frame[Main].invocations = 2
  /\ frame[Main].result.status = "success"
  /\ frame[Main].result.used_fallback
  /\ LastReply.role = "assistant"
  /\ LastReply.metadata.used_fallback

\* the length below which a handler takes its cleaned text for incomplete
Floor(agent) == IF agent = "section_enhancement" THEN 50 ELSE 200

\* C27: a handler's result is needs_full_context only when the handler ran
\* on retrieved context and its agent or cleaner raised or the cleaned text
\* is shorter than the floor of its agent type (200, 50 for a section); run
\* on the full text it never returns needs_full_context, a failure of its
\* agent then takes the call to the exception handler, and the call returns
\* the error result.
C27_FullContextOnlyFromRetrieval ==
  /\ [][\A c \in Callers :
          (frame[c].pc \in {"dispatch", "retry"} /\ frame'[c] # frame[c])
          => LET r == frame'[c].result
                 rag == frame[c].pc = "dispatch" /\ frame[c].use_rag
             IN /\ r.status = "needs_full_context"
                   => /\ rag
                      /\ frame[c].agent \in {"company_research", "job_matching",
                                             "section_enhancement"}
                      /\ r.fragment = NoDoc \/ Chars(r.fragment) < Floor(frame[c].agent)
                /\ r.status = "raise" => (~rag /\ frame'[c].pc = "except")]_vars
  /\ [][\A c \in Callers :
          (frame[c].pc = "except" /\ frame'[c] # frame[c])
          => (ret'.op = "process_query" /\ ret'.status = "failed")]_vars

\* a section handler that ran on retrieved context and got an empty text
\* from the cleaner has asked for the full text
C27_Witness ==
  /\ frame[Main].pc = "retry"
  /\ frame[Main].use_rag
  /\ frame[Main].agent = "section_enhancement"
  /\ frame[Main].result.status = "needs_full_context"
  /\ frame[Main].result.fragment = "empty"

\* C28 (as claimed): a call of revert_to_version appends a version, to the
\* active session, only when a session is active and the id is that of one of
\* the active session's versions; in every other case it returns False and
\* leaves the messages and the versions of every session as they were.
C28_RevertOnlyOwnVersions ==
  [][nreverts' # nreverts
     => LET own == /\ current_session # NoSession
                   /\ \E i \in 1..Len(resume_versions[current_session]) :
                        resume_versions[current_session][i].version_id = ret'.version_id
        IN IF own
           THEN /\ ret'.status = "true"
                /\ Len(resume_versions'[current_session]) =
                     Len(resume_versions[current_session]) + 1
           ELSE /\ ret'.status = "false"
                /\ resume_versions' = resume_versions
                /\ conversations' = conversations]_vars

\* C29 (as claimed): a call made with an active session never leaves its
\* user message without a reply; a call about to return its result has
\* appended the user message and one assistant message and nothing else, and
\* a call about to store the system error message has appended the user
\* message and nothing else.
C29_TwoMessagesPerQuery ==
  /\ (ret.op = "process_query" /\ AllIdle) => ret.status # "raised"
  /\ \A c \in Callers :
       LET f == frame[c]
           log == conversations[f.session0] IN
       /\ f.pc = "finish"
          => /\ Len(log) = f.messages0 + 2
             /\ log[f.messages0 + 1].role = "user"
             /\ log[f.messages0 + 2].role = "assistant"
       /\ f.pc = "except"
          => /\ Len(log) = f.messages0 + 1
             /\ log[f.messages0 + 1].role = "user"

\* C30 (as claimed): the used_rag flag in the metadata of a call's assistant
\* message is true exactly when the invocation of the handler that produced
\* the call's result was given the retrieved context: the first invocation
\* of a call that retrieved context, and never the fallback invocation.
C30_UsedRagTellsFinalInvocation ==
  \A c \in Callers :
    Replied(c)
    => LastReply.metadata.used_rag =
         (frame[c].use_rag /\ frame[c].invocations = 1)

\* C31: the re-indexing of process_query is two steps: the step of
\* delete_session_data only removes chunks, all of the session's or none, and
\* inserts nothing, and the insertion is the step after it; in the state
\* between the two, once the chunks are removed, a search scoped to the
\* session returns no chunk although the session's latest version is a
\* non-empty text.
C31_ReindexIsNotAtomic ==
  /\ [][\A c \in Callers :
          (frame[c].pc = "delete" /\ frame'[c] # frame[c])
          => /\ frame'[c].pc = "add"
             /\ collection' \subseteq collection
             /\ \/ collection' = collection
                \/ SessionChunks(collection', current_session) = {}]_vars
  /\ [](\A c \in Callers :
          (frame[c].pc = "add" /\ SessionChunks(collection, frame[c].session0) = {})
          => /\ search_similar_content(collection, frame[c].session0, DefaultResults)
                  = {<<>>}
             /\ HasVersions(resume_versions, frame[c].session0)
             /\ Chars(get_latest_resume(resume_versions, frame[c].session0).content) > 0)

\* the chunks the session had when the call began are gone and the chunks of
\* the new version are not yet inserted
C31_Witness ==
  /\ frame[Main].pc = "add"
  /\ frame[Main].chunks0 # {}
  /\ SessionChunks(collection, current_session) = {}
  /\ search_similar_content(collection, current_session, DefaultResults) = {<<>>}
  /\ Chars(get_latest_resume(resume_versions, current_session).content) > 0

\* C32: a call of a store made for one session leaves the messages, the
\* versions and the chunks of every other session as they were, and the
\* results of a search made for a session are chunks of that session, in
\* whatever order the calls for the different sessions are made.
C32_SessionsAreIsolated ==
  [][/\ \A t \in SessionIds \ {ret'.session} :
          /\ conversations'[t] = conversations[t]
          /\ resume_versions'[t] = resume_versions[t]
          /\ SessionChunks(collection', t) = SessionChunks(collection, t)
     /\ ret'.op = "search_similar_content"
        => \A i \in 1..Len(ret'.results) : ret'.results[i].session_id = ret'.session]_vars

\* both sessions have chunks, and a search for the first has returned chunks
C32_Witness ==
  /\ ret.op = "search_similar_content"
  /\ ret.session = 1
  /\ Len(ret.results) > 0
  /\ SessionChunks(collection, 2) # {}
  /\ Len(conversations[2]) > 0

\* C33 (as claimed): a call of start_session that returns an error result
\* leaves the sessions, the messages and the versions of the session store
\* and the chunks of the index as they were before the call.
C33_FailedStartLeavesNothing ==
  [][(ret'.op = "start_session" /\ ret'.status = "error" /\ UNCHANGED <<frame, counters>>)
     => UNCHANGED <<store, collection>>]_vars

\* the keys of a list
KeysOf(keys) == {keys[i] : i \in 1..Len(keys)}

\* C34: the section name the handler goes on with is a key of the sections
\* parsed from its text; it is the matcher's answer only when the answer is a
\* key or equals a key when case is ignored, and an answer that is NONE in
\* any case, equals no key, or a failed call, is never taken as the section.
C34_ResolvedSectionIsAKey ==
  ret.op = "match_section"
  => LET m == ret.matched
         accepted == {k \in KeysOf(ret.keys) : Upper(k) = Upper(ret.answer)} IN
     /\ m.section # NoMatch => m.section \in KeysOf(ret.keys)
     /\ m.section = NoMatch <=> m.by = "none"
     /\ m.by = "llm" => (ret.answer # CallFailed /\ m.section \in accepted)
     /\ (ret.answer = CallFailed \/ Upper(ret.answer) = <<"NONE">> \/ accepted = {})
        => m.by # "llm"

\* the matcher answered in lower case and the key was taken
C34_Witness ==
  /\ ret.op = "match_section"
  /\ ret.section_name = <<"w", Blank, "w">>
  /\ ret.keys = <<<<"E">>, <<"S">>>>
  /\ ret.answer = <<"e">>
  /\ ret.matched.section = <<"E">>
  /\ ret.matched.by = "llm"

\* the keys that hold the requested name, or are held by it, case ignored
SubstringHits(section_name, keys) ==
  {k \in KeysOf(keys) : \/ Within(Lower(section_name), Lower(k))
                        \/ Within(Lower(k), Lower(section_name))}

\* the order of the matchers: an exact key is taken as it is; else a key
\* found by substring; the generative matcher is called exactly when there is
\* neither; a key found by token overlap is taken only when the generative
\* matcher was called and yielded none
MatchersInOrder ==
  LET m == ret.matched
      exact == ret.section_name \in KeysOf(ret.keys)
      hits == SubstringHits(ret.section_name, ret.keys) IN
  /\ exact => (m.by = "exact" /\ m.section = ret.section_name)
  /\ (~exact /\ hits # {}) => (m.by = "substring" /\ m.section \in hits)
  /\ m.consulted <=> (~exact /\ hits = {})
  /\ m.by = "llm" => m.consulted
  /\ m.by = "token"
     => /\ m.consulted
        /\ match_section_with_llm(ret.answer, ret.keys) = NoMatch
        /\ \E word \in Words_(Lower(m.section)) : Within(word, Lower(ret.section_name))
  /\ (m.consulted /\ match_section_with_llm(ret.answer, ret.keys) # NoMatch)
     => m.by = "llm"

\* a request of two words (work history) against two one-word sections
\* (EXPERIENCE, SKILLS) that share no letter with it
IsWorkHistory ==
  /\ ret.section_name = <<"w", Blank, "w">>
  /\ ret.keys = <<<<"E">>, <<"S">>>>

\* C35 (as claimed): the matchers are applied in their order, and the request
\* work history against EXPERIENCE and SKILLS resolves to EXPERIENCE.
C35_MatchersInOrderResolveExample ==
  ret.op = "match_section"
  => /\ MatchersInOrder
     /\ IsWorkHistory => ret.matched.section = <<"E">>

\* C35 (amended): the matchers are applied in their order, and the request
\* work history against EXPERIENCE and SKILLS resolves to EXPERIENCE when the
\* generative matcher answers EXPERIENCE, in any case, to SKILLS when it
\* answers SKILLS, and to no section when it answers anything else or fails.
C35_MatchersInOrder ==
  ret.op = "match_section"
  => /\ MatchersInOrder
     /\ IsWorkHistory
        => /\ Upper(ret.answer) = <<"E">> <=> ret.matched.section = <<"E">>
           /\ Upper(ret.answer) = <<"S">> <=> ret.matched.section = <<"S">>
           /\ Upper(ret.answer) \notin {<<"E">>, <<"S">>} <=> ret.matched.section = NoMatch

\* neither an exact nor a substring match, the generative matcher answered
\* NONE, and the token overlap found the section
C35_Witness ==
  /\ ret.op = "match_section"
  /\ ret.section_name = <<"s", "w">>
  /\ ret.keys = <<<<"S", Blank, "W">>>>
  /\ ret.answer = <<"NONE">>
  /\ ret.matched.by = "token"
  /\ ret.matched.section = <<"S", Blank, "W">>

\* C36: once the general handler has been dispatched the call goes on to
\* store an assistant message and to return: its result is a success whose
\* response is the greeting, the agent's answer or, when the agent failed,
\* the canned menu; the handler was invoked once, without the fallback; no
\* version is appended and the session's chunks are those it had when the
\* call began; and the call returns success.
C36_GeneralFailureGivesMenu ==
  /\ [](\A c \in Callers :
          (frame[c].agent = "general"
           /\ frame[c].pc \notin {"idle", "route", "latest", "retrieve", "dispatch"})
          => /\ frame[c].pc \in {"respond", "finish"}
             /\ frame[c].result.status = "success"
             /\ frame[c].result.response \in {"greeting", "answer", "menu"}
             /\ frame[c].invocations = 1
             /\ ~frame[c].result.used_fallback
             /\ Appended(c) = 0
             /\ SessionChunks(collection, frame[c].session0) = frame[c].chunks0
             /\ frame[c].pc = "finish"
                => /\ LastReply.role = "assistant"
                   /\ LastReply.content = frame[c].result.response)
  /\ [][\A c \in Callers :
          (frame[c].agent = "general" /\ frame[c].pc = "finish" /\ frame'[c] # frame[c])
          => (ret'.op = "process_query" /\ ret'.status = "success")]_vars

\* the agent failed on a question, and the menu is stored as the reply
C36_Witness ==
  /\ frame[Main].pc = "finish"
  /\ frame[Main].agent = "general"
  /\ frame[Main].result.response = "menu"
  /\ LastReply.role = "assistant"
  /\ LastReply.content = "menu"
  /\ frame[Main].chunks0 # {}

\* C37 (as claimed): the decision process_query has taken from route_query
\* has one of the four agent types and a confidence from 0 to 1 (0 to 100 in
\* hundredths).
C37_DecisionIsWellFormed ==
  \A c \in Callers :
    frame[c].pc = "latest"
    => /\ frame[c].agent \in AgentTypes
       /\ frame[c].routing.confidence >= 0
       /\ frame[c].routing.confidence <= 100

\* C38 (as claimed): the sections parsed from the formatted text are the
\* sections that were formatted, name by name with the same content.
C38_FormatParseRoundTrip ==
  ret.op = "format_resume_sections" => ret.parsed = ret.sections

\* the model's answer is a list, not empty, of dictionaries whose intents are
\* strings or missing
IsTaskList(response) ==
  /\ response.kind = "list"
  /\ response.items # <<>>
  /\ \A i \in 1..Len(response.items) :
       response.items[i].isDict /\ response.items[i].intent # "null"

\* C39: parse_complex_query returns a list that is not empty, whose tasks
\* are numbered from 1 in their order; for a task list of the model these are
\* its tasks, one for one in its order, with an unknown or missing intent
\* taken as general; in every other case (the call failed, the answer is not
\* a task list, the list is empty) it is the one task whose description is
\* the query and whose agent type is that of route_query.
C39_DecompositionNeverEmpty ==
  ret.op = "parse_complex_query"
  => /\ Len(ret.tasks) >= 1
     /\ \A i \in 1..Len(ret.tasks) : ret.tasks[i].task_id = i /\ ret.tasks[i].priority = i
     /\ \A i \in 1..Len(ret.tasks) : ret.tasks[i].agent_type \in AgentTypes
     /\ IsTaskList(ret.response)
        => /\ Len(ret.tasks) = Len(ret.response.items)
           /\ \A i \in 1..Len(ret.tasks) :
                LET item == ret.response.items[i] IN
                /\ ret.tasks[i].description \in {item.description, ret.query}
                /\ item.description # "missing"
                   => ret.tasks[i].description = item.description
                /\ IntentLower(item.intent) \in AgentTypes
                   => ret.tasks[i].agent_type = IntentLower(item.intent)
                /\ IntentLower(item.intent) \notin AgentTypes
                   => ret.tasks[i].agent_type = "general"
     /\ ~IsTaskList(ret.response)
        => /\ Len(ret.tasks) = 1
           /\ ret.tasks[1].description = ret.query
           /\ ret.tasks[1].agent_type = route_query(ret.decision).agent_type

\* the model answered an empty list and the classifier chose an agent
C39_Witness ==
  /\ ret.op = "parse_complex_query"
  /\ ret.response = [kind |-> "list", items |-> <<>>]
  /\ ret.decision # ClassifierFailed
  /\ ret.decision.agent_type = "job_matching"
  /\ ret.tasks = <<Task(1, ret.query, "job_matching")>>
====
